---------------------------- MODULE Spec2Model ----------------------------
(***************************************************************************)
(* Model of the fund-composition dashboard:                                *)
(*   - the Composition Resolver (src/lib/fund/index.ts) with its           *)
(*     server-side Timed Cache (src/lib/fundScraper.ts) and the client's   *)
(*     durable cache (FundDetailModal.fetchFundData);                      *)
(*   - the Visibility Scheduler of the detail view (FundDetailModal:       *)
(*     handleHoldingVisible / processBatch / cleanup effect).              *)
(* Each part has its own specification; the variables of the other part    *)
(* stay at their initial value.                                            *)
(***************************************************************************)
EXTENDS Integers, Sequences, FiniteSets, TLC

-----------------------------------------------------------------------------
(* Bounds of the model *)

\* number of clock steps a behaviour may take
MaxTicks == 2
\* number of composition requests a behaviour may issue
MaxRequests == 2
\* number of visibility events a detail view may receive
MaxVisible == 3
\* number of constituent rows of the detail view
NRows == 2
\* number of enrichment operations (batch requests, bulk runs) in a behaviour
MaxOps == 2
\* a batch request is sent only when at most this many of its names miss the
\* caches; a chunk of the bulk path holds at most this many shares, except in
\* a run that is the first operation of a behaviour
MaxOutstanding == 2

-----------------------------------------------------------------------------
(* Values *)

\* JavaScript null, and a Map / localStorage key with no entry
Null == [null |-> TRUE]
NoEntry == [noentry |-> TRUE]
\* JavaScript undefined, for the optional (string-valued) metadata fields
Undef == "undefined"

\* fundScraper.ts: const CACHE_TTL = 24 * 60 * 60 * 1000
CACHE_TTL == 24 * 60 * 60 * 1000

\* the clock advances in steps of one TTL, so that an age of exactly
\* CACHE_TTL (still a hit) and an age beyond it are both reached
TickStep == CACHE_TTL

Isins == {"INF001", "INF002"}

\* the display name the caller passes along with the identifier
FundNameOf(isin) == IF isin = "INF001" THEN "Alpha Fund" ELSE "Beta Fund"

\* index.ts: SCRAPERS, in priority order
SCRAPERS == <<"Groww", "Tickertape", "Moneycontrol", "ValueResearch", "ETMoney">>

\* the source label each adapter writes into the Composition it returns
SourceLabel(name) ==
    CASE name = "Groww"         -> "Groww"
      [] name = "Tickertape"    -> "Tickertape"
      [] name = "Moneycontrol"  -> "Moneycontrol"
      [] name = "ValueResearch" -> "Value Research"
      [] name = "ETMoney"       -> "ET Money"

NO_DATA_SOURCE == "No data available"
NO_DATA_ERROR == "Failed to fetch holdings from all sources"

\* what one adapter invocation can do: return null, return a Composition with
\* an empty constituent list, throw, or return a populated Composition
ScraperKinds == {"absent", "empty", "throw", "ok"}

\* what the registry lookup can do
MfapiKinds == {"ok", "noScheme", "httpError", "throw"}

\* JavaScript truthiness of the values the model uses
Truthy(v) == v /= Undef /\ v /= ""

\* JavaScript a || b
Or(a, b) == IF Truthy(a) THEN a ELSE b

-----------------------------------------------------------------------------
(* State *)

VARIABLES
    now,             \* Date.now()
    portfolioCache,  \* fundScraper.ts: portfolioCache (server, in memory)
    localStorage,    \* the browser's fund_portfolio_<isin> entries
    call,            \* the composition requests in progress
    nRequests,       \* requests issued so far
    lastRes          \* history: per identifier, the last resolution that ran the chain

rvars == <<now, portfolioCache, localStorage, call, nRequests, lastRes>>

\* the detail view (FundDetailModal) and its Visibility Scheduler
VARIABLES
    mounted,         \* the view exists (its cleanup effect has not run)
    isPEEnabled,     \* useState isPEEnabled
    fundData,        \* useState fundData
    loadingIndices,  \* useState loadingIndices
    pendingIndices,  \* useRef pendingIndices (a Set: insertion order kept)
    fetchedIndices,  \* useRef fetchedIndices
    batchTimeout,    \* useRef batchTimeout: the debounce timer
    followUps,       \* the setTimeout(processBatch, 100) timers, handles not kept
    isFetching,      \* useRef isFetching
    abortController, \* useRef abortController: 0 (null) or the request it belongs to
    inflight,        \* the batch calls sent and not yet settled
    nVisible,        \* history: visibility events so far
    nIssued,         \* history: batch calls issued so far
    lastFire,        \* history: what the last timer firing did (live: the view was open)
    lastSettled,     \* history: how the last batch call settled
    lastResults,     \* history: the results of the last successful batch call
    burst            \* history: the visibility events since the debounce timer was last idle
                     \* (skipped: the rows whose events were ignored as already requested)

svars == <<mounted, isPEEnabled, fundData, loadingIndices, pendingIndices,
           fetchedIndices, batchTimeout, followUps, isFetching, abortController,
           inflight, nVisible, nIssued, lastFire, lastSettled, lastResults, burst>>

\* ratio enrichment on the server: the batch endpoint and the bulk path
VARIABLES
    routeCache,      \* peCache.ts: peCache (the Ratio Cache of the batch endpoint)
    screenerCache,   \* peEnricher.ts: peCache (inside fetchPEFromScreener)
    symbolCache,     \* peEnricher.ts: symbolCache (inside searchNSESymbol)
    op,              \* the enrichment operation in progress, or the last one
    nOps,            \* history: operations started so far
    lastEnrich       \* history: per cache key, the last completed lookup

evars == <<routeCache, screenerCache, symbolCache, op, nOps, lastEnrich>>

\* the aggregation endpoint, the Source Adapters' row filters, and the history
\* of the server-side cache
VARIABLES
    agg,             \* the aggregation request in progress, or the last one
    scrape,          \* the last run of a Source Adapter: what it read and returned
    lastWrite        \* history: per identifier, the last value cachePortfolio stored

avars == <<agg, scrape, lastWrite>>

vars == <<rvars, svars, evars, avars>>

Calls == {1, 2}

\* pc: idle -> sent -> mfapi -> scraper -> done -> idle ("threw": an exception
\* left fetchFundPortfolio).  invoked, failed, threw, mfapiCalled, lookupAt and
\* prior are history: the adapters invoked in order, how many of them failed,
\* whether one threw, and what the last chain-running resolution of the
\* identifier had produced when this one looked into the cache.
IdleCall ==
    [pc |-> "idle", isin |-> "", via |-> "", mfapiData |-> Null, k |-> 0,
     result |-> Null, hit |-> FALSE, lookupAt |-> 0, prior |-> Null,
     mfapiCalled |-> FALSE, invoked |-> <<>>, failed |-> 0, threw |-> FALSE]

-----------------------------------------------------------------------------
(* Timed cache, server side: fundScraper.ts *)

\* (mutant) the expiry test made inclusive: an entry aged exactly CACHE_TTL misses
GetCachedPortfolio_ExpiresAtTtl(cache, isin, t) ==
    LET entry == cache[isin] IN
    IF entry = NoEntry THEN Null
    ELSE IF t - entry.timestamp >= CACHE_TTL THEN Null
    ELSE entry.data

\* getCachedPortfolio: the value returned
GetCachedPortfolio(cache, isin, t) ==
    LET entry == cache[isin] IN
    IF entry = NoEntry THEN Null
    ELSE IF t - entry.timestamp > CACHE_TTL THEN Null
    ELSE entry.data

\* (mutant) the read leaves an expired entry in the map
EvictOnGet_KeepsExpired(cache, isin, t) ==
    cache

\* getCachedPortfolio: the cache it leaves behind (an expired entry is deleted)
EvictOnGet(cache, isin, t) ==
    LET entry == cache[isin] IN
    IF entry /= NoEntry /\ t - entry.timestamp > CACHE_TTL
    THEN [cache EXCEPT ![isin] = NoEntry]
    ELSE cache

\* (mutant) an identifier that has an entry keeps it: the first write wins
CachePortfolio_KeepsFirst(cache, isin, data, t) ==
    IF cache[isin] /= NoEntry THEN cache
    ELSE [cache EXCEPT ![isin] = [data |-> data, timestamp |-> t]]

\* cachePortfolio
CachePortfolio(cache, isin, data, t) ==
    [cache EXCEPT ![isin] = [data |-> data, timestamp |-> t]]

(* Timed cache, client side: FundDetailModal getCachedPortfolio / cachePortfolio *)

LsGetCachedPortfolio(ls, isin, t) ==
    LET entry == ls[isin] IN
    IF entry = NoEntry THEN Null
    ELSE IF t - entry.timestamp > CACHE_TTL THEN Null
    ELSE entry.data

LsEvictOnGet(ls, isin, t) ==
    LET entry == ls[isin] IN
    IF entry /= NoEntry /\ t - entry.timestamp > CACHE_TTL
    THEN [ls EXCEPT ![isin] = NoEntry]
    ELSE ls

LsCachePortfolio(ls, isin, data, t) ==
    [ls EXCEPT ![isin] = [data |-> data, timestamp |-> t]]

-----------------------------------------------------------------------------
(* Registry lookup and Source Adapters *)

\* mfapi.ts fetchFromMFAPI: every failure inside is caught and yields null
FetchFromMFAPI(kind, isin) ==
    IF kind = "ok"
    THEN [fundName |-> "MFAPI scheme", category |-> "MFAPI category",
          fundHouse |-> "MFAPI house", nav |-> "10.5", navDate |-> "01-01-2026"]
    ELSE Null

\* the value a Source Adapter hands back (a throw carries no value)
ScraperValue(name, kind, isin, fundName, t) ==
    IF kind \in {"ok", "empty"}
    THEN [fundName |-> fundName, isin |-> isin,
          category |-> IF name = "Groww" THEN "Provider category" ELSE Undef,
          fundHouse |-> IF name = "Groww" THEN "Provider house" ELSE Undef,
          nav |-> IF name = "Groww" THEN "20.5" ELSE Undef,
          navDate |-> Undef,
          holdings |-> IF kind = "ok" THEN <<"Stock A">> ELSE <<>>,
          lastUpdated |-> t, source |-> SourceLabel(name), error |-> Undef]
    ELSE Null

Field(rec, f) == IF rec = Null THEN Undef ELSE rec[f]

\* index.ts 67-75: the populated result
PopulatedResult(mfapiData, portfolio, fundName) ==
    [portfolio EXCEPT
        !.fundName = Or(Or(Field(mfapiData, "fundName"), portfolio.fundName), fundName),
        !.category = Or(Field(mfapiData, "category"), portfolio.category),
        !.fundHouse = Field(mfapiData, "fundHouse"),
        !.nav = Or(Field(mfapiData, "nav"), portfolio.nav),
        !.navDate = Field(mfapiData, "navDate")]

\* index.ts 83-96: the explicit empty result
EmptyResult(mfapiData, isin, fundName, t) ==
    [fundName |-> Or(Field(mfapiData, "fundName"), fundName), isin |-> isin,
     category |-> Field(mfapiData, "category"),
     fundHouse |-> Field(mfapiData, "fundHouse"),
     nav |-> Field(mfapiData, "nav"), navDate |-> Field(mfapiData, "navDate"),
     holdings |-> <<>>, lastUpdated |-> t,
     source |-> NO_DATA_SOURCE, error |-> NO_DATA_ERROR]

-----------------------------------------------------------------------------
(* fetchFundPortfolio, index.ts 34-100 *)

\* index.ts 36-45: the cache lookup; on a miss the registry lookup is awaited
StartResolve(cr, cache, t) ==
    LET cached == GetCachedPortfolio(cache, cr.isin, t) IN
    IF cached /= Null
    THEN [cr EXCEPT !.pc = "done", !.result = cached, !.hit = TRUE, !.lookupAt = t]
    ELSE [cr EXCEPT !.pc = "mfapi", !.lookupAt = t, !.mfapiCalled = TRUE]

\* index.ts 64-99: build the final result once the loop has ended
BuildResult(cr, portfolio, t) ==
    IF portfolio /= Null /\ Len(portfolio.holdings) > 0
    THEN PopulatedResult(cr.mfapiData, portfolio, FundNameOf(cr.isin))
    ELSE EmptyResult(cr.mfapiData, cr.isin, FundNameOf(cr.isin), t)

\* (mutant) the result is cached whether or not an adapter succeeded
CacheAfterResolve_CachesNegative(cache, isin, portfolio, result, t) ==
    CachePortfolio(cache, isin, result, t)

\* index.ts 77-79: only a populated result is written to the cache
CacheAfterResolve(cache, isin, portfolio, result, t) ==
    IF portfolio /= Null /\ Len(portfolio.holdings) > 0
    THEN CachePortfolio(cache, isin, result, t)
    ELSE cache

\* (mutant) the loop has no break: a successful adapter does not end it
LoopTurn_NoBreak(k, kind, value) ==
    IF k < Len(SCRAPERS) THEN [do |-> "next", portfolio |-> Null]
    ELSE [do |-> "stop",
          portfolio |-> IF kind /= "throw" /\ value /= Null THEN value ELSE Null]

\* (mutant) the loop body has no try/catch: an adapter's exception escapes
LoopTurn_NoCatch(k, kind, value) ==
    IF kind = "throw"
    THEN [do |-> "throw", portfolio |-> Null]
    ELSE IF value /= Null /\ Len(value.holdings) > 0
    THEN [do |-> "stop", portfolio |-> value]
    ELSE IF k < Len(SCRAPERS) THEN [do |-> "next", portfolio |-> Null]
                              ELSE [do |-> "stop", portfolio |-> Null]

\* index.ts 50-62: one turn of the loop, when SCRAPERS[k] has answered.
\* "stop": the loop ends with this portfolio (Null when the list is exhausted);
\* "next": the next adapter is invoked; "throw": the exception escapes.
LoopTurn(k, kind, value) ==
    IF kind = "throw"
    THEN (IF k < Len(SCRAPERS) THEN [do |-> "next", portfolio |-> Null]
                               ELSE [do |-> "stop", portfolio |-> Null])
    ELSE IF value /= Null /\ Len(value.holdings) > 0
    THEN [do |-> "stop", portfolio |-> value]
    ELSE IF k < Len(SCRAPERS) THEN [do |-> "next", portfolio |-> Null]
                              ELSE [do |-> "stop", portfolio |-> Null]

-----------------------------------------------------------------------------
(* Actions of the resolver *)

\* FundDetailModal.fetchFundData 181-203: the local cache is read first; on a
\* miss GET /api/mf/<isin> is sent
ClientOpen(c, isin) ==
    /\ call[c].pc = "idle"
    /\ nRequests < MaxRequests
    /\ nRequests' = nRequests + 1
    /\ localStorage' = LsEvictOnGet(localStorage, isin, now)
    /\ call' = [call EXCEPT ![c] =
            IF LsGetCachedPortfolio(localStorage, isin, now) /= Null
            THEN IdleCall
            ELSE [IdleCall EXCEPT !.pc = "sent", !.isin = isin, !.via = "client"]]
    /\ UNCHANGED <<now, portfolioCache, lastRes, svars, evars, avars>>

\* another browser (with nothing in its local cache) sends GET /api/mf/<isin>
OtherRequest(c, isin) ==
    /\ call[c].pc = "idle"
    /\ nRequests < MaxRequests
    /\ nRequests' = nRequests + 1
    /\ call' = [call EXCEPT ![c] =
            [IdleCall EXCEPT !.pc = "sent", !.isin = isin, !.via = "other"]]
    /\ UNCHANGED <<now, portfolioCache, localStorage, lastRes, svars, evars, avars>>

\* route.ts GET -> fetchFundPortfolio up to its first await
ServerStart(c) ==
    /\ call[c].pc = "sent"
    /\ portfolioCache' = EvictOnGet(portfolioCache, call[c].isin, now)
    /\ call' = [call EXCEPT ![c] =
            [StartResolve(call[c], portfolioCache, now)
                EXCEPT !.prior = lastRes[call[c].isin]]]
    /\ UNCHANGED <<now, localStorage, nRequests, lastRes, svars, evars, avars>>

\* index.ts 45-52: the registry lookup answers; the first adapter is invoked
MfapiReturn(c, kind) ==
    /\ call[c].pc = "mfapi"
    /\ call' = [call EXCEPT ![c] =
            [@ EXCEPT !.pc = "scraper", !.k = 1,
                      !.mfapiData = FetchFromMFAPI(kind, call[c].isin),
                      !.invoked = <<SCRAPERS[1]>>]]
    /\ UNCHANGED <<now, portfolioCache, localStorage, nRequests, lastRes, svars, evars, avars>>

\* index.ts 52-99: adapter k answers; the loop goes on, or ends and the result
\* is built, cached when populated, and returned
ScraperReturn(c, kind) ==
    /\ call[c].pc = "scraper"
    /\ LET cr == call[c]
           value == ScraperValue(SCRAPERS[cr.k], kind, cr.isin, FundNameOf(cr.isin), now)
           turn == LoopTurn(cr.k, kind, value)
           seen == [cr EXCEPT !.failed = IF kind = "ok" THEN @ ELSE @ + 1,
                             !.threw = @ \/ kind = "throw"]
       IN
       CASE turn.do = "next" ->
              /\ call' = [call EXCEPT ![c] =
                      [seen EXCEPT !.k = cr.k + 1,
                                   !.invoked = Append(@, SCRAPERS[cr.k + 1])]]
              /\ UNCHANGED <<portfolioCache, lastRes, lastWrite>>
         [] turn.do = "stop" ->
              LET result == BuildResult(cr, turn.portfolio, now) IN
              /\ call' = [call EXCEPT ![c] =
                      [seen EXCEPT !.pc = "done", !.result = result]]
              /\ portfolioCache' =
                      CacheAfterResolve(portfolioCache, cr.isin, turn.portfolio, result, now)
              /\ lastRes' = [lastRes EXCEPT ![cr.isin] = [data |-> result, at |-> now]]
              /\ lastWrite' = IF Len(result.holdings) > 0
                              THEN [lastWrite EXCEPT ![cr.isin] = result]
                              ELSE lastWrite
         [] turn.do = "throw" ->
              /\ call' = [call EXCEPT ![c] = [seen EXCEPT !.pc = "threw"]]
              /\ UNCHANGED <<portfolioCache, lastRes, lastWrite>>
    /\ UNCHANGED <<now, localStorage, nRequests, svars, evars, agg, scrape>>

\* route.ts 24 and FundDetailModal.fetchFundData 203-209: the response is sent;
\* the client that asked stores it when it carries constituents
Respond(c) ==
    /\ call[c].pc = "done"
    /\ localStorage' =
          IF call[c].via = "client" /\ Len(call[c].result.holdings) > 0
          THEN LsCachePortfolio(localStorage, call[c].isin, call[c].result, now)
          ELSE localStorage
    /\ call' = [call EXCEPT ![c] = IdleCall]
    /\ UNCHANGED <<now, portfolioCache, nRequests, lastRes, svars, evars, avars>>

\* time passes
Tick ==
    /\ now < MaxTicks * TickStep
    /\ now' = now + TickStep
    /\ UNCHANGED <<portfolioCache, localStorage, call, nRequests, lastRes, svars, evars, avars>>

\* the constituent names that are enriched; the second differs from the first
\* in case and surrounding blanks only, the last is a government bond
StockNames == {"Acme Ltd", " ACME LTD ", "Bolt", "7.26% GOI 2033"}

\* peCache.ts 23, 43 and peEnricher.ts 20, 58: name.toLowerCase().trim()
CacheKey(name) ==
    CASE name = "Acme Ltd" -> "acme ltd"
      [] name = " ACME LTD " -> "acme ltd"
      [] name = "Bolt" -> "bolt"
      [] name = "7.26% GOI 2033" -> "7.26% goi 2033"

Keys == {CacheKey(n) : n \in StockNames}

\* no enrichment has run
IdleOp == [kind |-> "idle", stage |-> "returned", stocks |-> <<>>, holdings |-> <<>>,
           look |-> <<>>, results |-> <<>>, status |-> 0, i |-> 0, sleeps |-> 0,
           enriched |-> <<>>]

NoEnrich ==
    /\ routeCache = [k \in Keys |-> NoEntry]
    /\ screenerCache = [k \in Keys |-> NoEntry]
    /\ symbolCache = [k \in Keys |-> NoEntry]
    /\ op = IdleOp
    /\ nOps = 0
    /\ lastEnrich = [k \in Keys |-> Null]

\* no detail view is open
NoTimer == [armed |-> FALSE]

NoFire == [by |-> "none", did |-> "none", indices |-> <<>>, stocks |-> <<>>,
           rows |-> {}, clean |-> FALSE, live |-> TRUE]

NoBurst == [rows |-> {}, clean |-> TRUE, skipped |-> {}]

NoView ==
    /\ mounted = FALSE
    /\ isPEEnabled = FALSE
    /\ fundData = Null
    /\ loadingIndices = {}
    /\ pendingIndices = <<>>
    /\ fetchedIndices = {}
    /\ batchTimeout = NoTimer
    /\ followUps = <<>>
    /\ isFetching = FALSE
    /\ abortController = 0
    /\ inflight = <<>>
    /\ nVisible = 0
    /\ nIssued = 0
    /\ lastFire = NoFire
    /\ lastSettled = "none"
    /\ lastResults = <<>>
    /\ burst = NoBurst

\* no aggregation has been requested, no adapter has run, nothing was cached
IdleAgg == [stage |-> "idle", mfHoldings |-> <<>>, uniqueFunds |-> <<>>,
            totalPortfolioValue |-> 0, i |-> 0, resolved |-> <<>>, portfolios |-> <<>>,
            holdingsMap |-> <<>>, response |-> Null]

NoScrape == [adapter |-> "none", rows |-> <<>>, result |-> Null]

NoAggregation ==
    /\ agg = IdleAgg
    /\ scrape = NoScrape
    /\ lastWrite = [i \in Isins |-> Null]

InitResolver ==
    /\ now = 0
    /\ portfolioCache = [i \in Isins |-> NoEntry]
    /\ localStorage = [i \in Isins |-> NoEntry]
    /\ call = [c \in Calls |-> IdleCall]
    /\ nRequests = 0
    /\ lastRes = [i \in Isins |-> Null]

Init == InitResolver /\ NoView /\ NoEnrich /\ NoAggregation

\* one request at a time
Next ==
    \/ \E isin \in Isins : ClientOpen(1, isin)
    \/ \E isin \in Isins : OtherRequest(1, isin)
    \/ ServerStart(1)
    \/ \E kind \in MfapiKinds : MfapiReturn(1, kind)
    \/ \E kind \in ScraperKinds : ScraperReturn(1, kind)
    \/ Respond(1)
    \/ Tick

Spec == Init /\ [][Next]_vars

-----------------------------------------------------------------------------
(* The detail view: FundDetailModal, HoldingRow *)

Rows == 1..NRows

\* the holding the view shows
ViewIsin == "INF001"

\* FundDetailModal: setTimeout(processBatch, 200) and setTimeout(processBatch, 100),
\* in clock steps of 100 ms
DebounceSteps == 2
FollowUpSteps == 1

\* FundDetailModal 227: .slice(0, 10)
BATCH_LIMIT == 10

\* the constituent names of the holding: all distinct, or two rows sharing one
NameLists == { [i \in Rows |-> IF i = 1 THEN "Acme" ELSE IF i = 2 THEN "Bolt" ELSE "Core"],
               [i \in Rows |-> IF i <= 2 THEN "Acme" ELSE "Core"] }

\* a constituent without / with the enrichment fields (0 and "": absent)
PlainHolding(name) == [name |-> name, pe |-> 0, marketCap |-> "", symbol |-> ""]
RichHolding(name) == [name |-> name, pe |-> 15, marketCap |-> "Large Cap", symbol |-> "SYM"]

\* what the batch endpoint can answer for one name: ratio, band and ticker;
\* the ticker alone; nothing
ResultKinds == {"full", "ticker", "none"}

\* one entry of the response's results
ResultOf(name, kind) ==
    CASE kind = "full"   -> [name |-> name, pe |-> 15, marketCap |-> "Large Cap", symbol |-> "SYM"]
      [] kind = "ticker" -> [name |-> name, pe |-> 0, marketCap |-> "", symbol |-> "SYM"]
      [] kind = "none"   -> [name |-> name, pe |-> 0, marketCap |-> "", symbol |-> ""]

\* JavaScript a || b on numbers
OrNum(a, b) == IF a /= 0 THEN a ELSE b

\* the rows of fd that carry a ratio
WithPE(fd) == {i \in DOMAIN fd.holdings : fd.holdings[i].pe /= 0}

\* what a processBatch closure has captured of the render that created it:
\* of fundData, which rows carry a ratio; and loadingIndices
Closure(fd, loading) == [pe |-> WithPE(fd), loading |-> loading]

RECURSIVE SeqToSet(_)
SeqToSet(q) == IF q = <<>> THEN {} ELSE {Head(q)} \cup SeqToSet(Tail(q))

\* Set.add / Set.delete on an insertion-ordered Set
SetAdd(q, i) == IF i \in SeqToSet(q) THEN q ELSE Append(q, i)
SetDeleteAll(q, S) == SelectSeq(q, LAMBDA i : i \notin S)

\* Array.prototype.slice(0, n)
Slice(q, n) == IF Len(q) <= n THEN q ELSE SubSeq(q, 1, n)

\* first index of a holding with that name (0: none), Array.prototype.findIndex
FindIndex(hs, name) ==
    IF \E i \in DOMAIN hs : hs[i].name = name
    THEN CHOOSE i \in DOMAIN hs : hs[i].name = name /\ \A j \in DOMAIN hs : hs[j].name = name => i <= j
    ELSE 0

-----------------------------------------------------------------------------
(* processBatch, FundDetailModal 221-315 *)

\* (mutant) the in-flight guard is dropped
AlreadyFetching_Ignored(flag) ==
    FALSE

\* 222: the in-flight guard (fundData is loaded whenever a timer is armed)
AlreadyFetching(flag) ==
    flag

\* (mutant) the batch is cut to a single index
IndicesToFetch_OnlyFirst(pending, fetched, loading) ==
    Slice(SelectSeq(pending, LAMBDA i : i \notin fetched /\ i \notin loading), 1)

\* 225-227: pending indices not fetched and not loading (as the closure sees
\* loadingIndices), at most 10
IndicesToFetch(pending, fetched, loading) ==
    Slice(SelectSeq(pending, LAMBDA i : i \notin fetched /\ i \notin loading), BATCH_LIMIT)

\* 232-234: the names of those rows that carry no ratio (as the closure sees fundData)
Stocks(indices, pe, fd) ==
    LET need == SelectSeq(indices, LAMBDA i : i \in DOMAIN fd.holdings /\ i \notin pe)
    IN  [j \in 1..Len(need) |-> fd.holdings[need[j]].name]

\* what a run of processBatch does: "busy" (222), "nothing" (229), "marked"
\* (236-240: fetched, no call) or "issued"
BatchPlan(cl) ==
    IF AlreadyFetching(isFetching)
    THEN [did |-> "busy", indices |-> <<>>, stocks |-> <<>>]
    ELSE LET indices == IndicesToFetch(pendingIndices, fetchedIndices, cl.loading)
             stocks == Stocks(indices, cl.pe, fundData)
         IN  IF indices = <<>> THEN [did |-> "nothing", indices |-> indices, stocks |-> stocks]
             ELSE IF stocks = <<>> THEN [did |-> "marked", indices |-> indices, stocks |-> stocks]
             ELSE [did |-> "issued", indices |-> indices, stocks |-> stocks]

\* a React state setter of an unmounted component changes nothing
SetState(old, new) == IF mounted THEN new ELSE old

\* 221-262: processBatch up to its first await, run with closure cl
RunProcessBatch(cl, by) ==
    LET plan == BatchPlan(cl)
        got == SeqToSet(plan.indices)
    IN  /\ lastFire' = [by |-> by, did |-> plan.did, indices |-> plan.indices,
                        stocks |-> plan.stocks,
                        rows |-> IF by = "debounce" THEN burst.rows ELSE {},
                        clean |-> IF by = "debounce" THEN burst.clean ELSE FALSE,
                        live |-> mounted]
        /\ burst' = IF by = "debounce" THEN NoBurst
                    ELSE IF plan.did = "issued" THEN [burst EXCEPT !.clean = FALSE]
                    ELSE burst
        /\ CASE plan.did \in {"busy", "nothing"} ->
                  UNCHANGED <<isFetching, loadingIndices, fetchedIndices, pendingIndices,
                              abortController, inflight, nIssued>>
             [] plan.did = "marked" ->
                  /\ fetchedIndices' = fetchedIndices \cup got
                  /\ UNCHANGED <<isFetching, loadingIndices, pendingIndices,
                                 abortController, inflight, nIssued>>
             [] plan.did = "issued" ->
                  /\ isFetching' = TRUE
                  /\ loadingIndices' = SetState(loadingIndices, loadingIndices \cup got)
                  /\ fetchedIndices' = fetchedIndices \cup got
                  /\ pendingIndices' = SetDeleteAll(pendingIndices, got)
                  /\ nIssued' = nIssued + 1
                  /\ abortController' = nIssued + 1
                  /\ inflight' = Append(inflight,
                         [id |-> nIssued + 1, indices |-> plan.indices,
                          stocks |-> plan.stocks, closure |-> cl, aborted |-> FALSE])

\* 268-291: the response's results merged into the holdings by name
RECURSIVE MergeResults(_, _)
MergeResults(hs, results) ==
    IF results = <<>> THEN hs
    ELSE LET r == Head(results)
             idx == FindIndex(hs, r.name)
             merged == IF idx = 0 THEN hs
                       ELSE [hs EXCEPT ![idx] =
                               [@ EXCEPT !.pe = OrNum(r.pe, @),
                                         !.marketCap = Or(r.marketCap, @),
                                         !.symbol = Or(r.symbol, @)]]
         IN  MergeResults(merged, Tail(results))

\* (mutant) the catch block does not tell an abort from a failure
FetchedAfterSettle_AbortRetries(fetched, indices, outcome) ==
    IF outcome \in {"error", "abort"} THEN fetched \ SeqToSet(indices) ELSE fetched

\* 293-300: a failure other than an abort takes the indices out of the fetched set
FetchedAfterSettle(fetched, indices, outcome) ==
    IF outcome = "error" THEN fetched \ SeqToSet(indices) ELSE fetched

\* (mutant) the finally block arms the follow-up timer whatever the pending set holds
ArmFollowUp_Always(pending) ==
    TRUE

\* 310-313: a follow-up run is scheduled when the pending set is not empty
ArmFollowUp(pending) ==
    pending /= <<>>

-----------------------------------------------------------------------------
(* Actions of the detail view *)

\* (mutant) an index that was requested is queued like any other
AlreadyRequested_Ignored(i, fetched) ==
    FALSE

\* 320: fetchedIndices.current.has(index)
AlreadyRequested(i, fetched) ==
    i \in fetched

\* HoldingRow 17-37 and handleHoldingVisible 318-331: row i scrolls into view
\* (or its observer is re-created while it is in view); at most max such events
Visible(i, max) ==
    /\ mounted
    /\ nVisible < max
    /\ isPEEnabled /\ fundData.holdings[i].pe = 0 /\ i \notin loadingIndices
    /\ nVisible' = nVisible + 1
    /\ IF AlreadyRequested(i, fetchedIndices)
       THEN /\ burst' = [burst EXCEPT !.skipped = @ \cup {i}]
            /\ UNCHANGED <<pendingIndices, batchTimeout>>
       ELSE /\ pendingIndices' = SetAdd(pendingIndices, i)
            /\ batchTimeout' = [armed |-> TRUE, left |-> DebounceSteps,
                                closure |-> Closure(fundData, loadingIndices)]
            /\ burst' = IF batchTimeout.armed
                        THEN [burst EXCEPT !.rows = @ \cup {i},
                                           !.clean = @ /\ ~isFetching]
                        ELSE [rows |-> {i}, clean |-> ~isFetching,
                              skipped |-> burst.skipped]
    /\ UNCHANGED <<rvars, evars, avars, mounted, isPEEnabled, fundData, loadingIndices, fetchedIndices,
                   followUps, isFetching, abortController, inflight, nIssued,
                   lastFire, lastSettled, lastResults>>

VisibleEvent(i) == Visible(i, MaxVisible)

\* enablePELoading 334-339
EnablePELoading ==
    /\ mounted
    /\ ~isPEEnabled
    /\ pendingIndices' = <<>>
    /\ fetchedIndices' = {}
    /\ isPEEnabled' = TRUE
    /\ UNCHANGED <<rvars, evars, avars, mounted, fundData, loadingIndices, batchTimeout, followUps,
                   isFetching, abortController, inflight, nVisible, nIssued,
                   lastFire, lastSettled, lastResults, burst>>

\* the debounce timer fires
FireDebounce ==
    /\ batchTimeout.armed
    /\ batchTimeout.left = 0
    /\ batchTimeout' = NoTimer
    /\ RunProcessBatch(batchTimeout.closure, "debounce")
    /\ UNCHANGED <<rvars, evars, avars, mounted, isPEEnabled, fundData, followUps, nVisible, lastSettled, lastResults>>

\* a follow-up timer fires
FireFollowUp(k) ==
    /\ k \in 1..Len(followUps)
    /\ followUps[k].left = 0
    /\ followUps' = [j \in 1..(Len(followUps) - 1) |->
                        IF j < k THEN followUps[j] ELSE followUps[j + 1]]
    /\ RunProcessBatch(followUps[k].closure, "followup")
    /\ UNCHANGED <<rvars, evars, avars, mounted, isPEEnabled, fundData, batchTimeout, nVisible,
                   lastSettled, lastResults>>

\* 100 ms pass: no armed timer is due, and every armed timer comes closer
TimerStep ==
    /\ batchTimeout.armed \/ followUps /= <<>>
    /\ batchTimeout.armed => batchTimeout.left > 0
    /\ \A k \in 1..Len(followUps) : followUps[k].left > 0
    /\ batchTimeout' = IF batchTimeout.armed
                       THEN [batchTimeout EXCEPT !.left = @ - 1] ELSE batchTimeout
    /\ followUps' = [k \in 1..Len(followUps) |-> [followUps[k] EXCEPT !.left = @ - 1]]
    /\ UNCHANGED <<rvars, evars, avars, mounted, isPEEnabled, fundData, loadingIndices, pendingIndices,
                   fetchedIndices, isFetching, abortController, inflight, nVisible,
                   nIssued, lastFire, lastSettled, lastResults, burst>>

\* 264-314: the batch call settles and the rest of processBatch runs.
\* outcome: "ok" (a 200 response with its results), "notOk" (a non-2xx
\* response), "error" (fetch rejects) or "abort" (the signal was aborted)
Settle(r, outcome, kinds) ==
    LET req == inflight[r]
        got == SeqToSet(req.indices)
        results == [j \in 1..Len(req.stocks) |-> ResultOf(req.stocks[j], kinds[j])]
        updatedData == [fundData EXCEPT !.holdings = MergeResults(@, results)]
    IN  /\ (outcome = "abort") = req.aborted
        /\ fundData' = IF outcome = "ok" THEN SetState(fundData, updatedData) ELSE fundData
        /\ localStorage' =
              IF outcome = "ok" /\ mounted
              THEN LsCachePortfolio(localStorage, ViewIsin, updatedData, now)
              ELSE localStorage
        /\ fetchedIndices' = FetchedAfterSettle(fetchedIndices, req.indices, outcome)
        /\ loadingIndices' = SetState(loadingIndices, loadingIndices \ got)
        /\ isFetching' = FALSE
        /\ abortController' = 0
        /\ followUps' = IF ArmFollowUp(pendingIndices)
                        THEN Append(followUps, [left |-> FollowUpSteps, closure |-> req.closure])
                        ELSE followUps
        /\ inflight' = [j \in 1..(Len(inflight) - 1) |->
                           IF j < r THEN inflight[j] ELSE inflight[j + 1]]
        /\ lastSettled' = outcome
        /\ lastResults' = IF outcome = "ok" THEN results ELSE <<>>
        /\ UNCHANGED <<evars, avars, now, portfolioCache, call, nRequests, lastRes, mounted, isPEEnabled,
                       pendingIndices, batchTimeout, nVisible, nIssued, lastFire, burst>>

SettleOk ==
    \E r \in 1..Len(inflight) :
        \E kinds \in [1..Len(inflight[r].stocks) -> ResultKinds] : Settle(r, "ok", kinds)

SettleOther ==
    \E r \in 1..Len(inflight) :
        \E outcome \in {"notOk", "error", "abort"} :
            Settle(r, outcome, [j \in 1..Len(inflight[r].stocks) |-> "none"])

\* (mutant) the cleanup leaves the pending set as it is
PendingAfterCleanup_Kept(pending) ==
    pending

\* 355: pendingIndices.current.clear()
PendingAfterCleanup(pending) ==
    <<>>

\* 341-358: the cleanup effect, when the view is closed
Teardown ==
    /\ mounted
    /\ mounted' = FALSE
    /\ batchTimeout' = NoTimer
    /\ inflight' = [j \in 1..Len(inflight) |->
                      IF abortController /= 0 /\ inflight[j].id = abortController
                      THEN [inflight[j] EXCEPT !.aborted = TRUE] ELSE inflight[j]]
    /\ pendingIndices' = PendingAfterCleanup(pendingIndices)
    /\ isFetching' = FALSE
    /\ UNCHANGED <<rvars, evars, avars, isPEEnabled, fundData, loadingIndices, fetchedIndices, followUps,
                   abortController, nVisible, nIssued, lastFire, lastSettled, lastResults, burst>>

\* the view once fetchFundData has loaded the holding: the composition shown is
\* the one in the durable cache, and enrichment starts enabled when a cached
\* row already carries a ratio (FundDetailModal 186-209)
ViewOpened(holdings, enabled) ==
    /\ now = 0
    /\ portfolioCache = [i \in Isins |-> NoEntry]
    /\ call = [c \in Calls |-> IdleCall]
    /\ nRequests = 0
    /\ lastRes = [i \in Isins |-> Null]
    /\ fundData = [isin |-> ViewIsin, holdings |-> holdings]
    /\ isPEEnabled = enabled
    /\ localStorage = [i \in Isins |->
                          IF i = ViewIsin THEN [data |-> fundData, timestamp |-> 0]
                          ELSE NoEntry]
    /\ mounted = TRUE
    /\ loadingIndices = {}
    /\ pendingIndices = <<>>
    /\ fetchedIndices = {}
    /\ batchTimeout = NoTimer
    /\ followUps = <<>>
    /\ isFetching = FALSE
    /\ abortController = 0
    /\ inflight = <<>>
    /\ nVisible = 0
    /\ nIssued = 0
    /\ lastFire = NoFire
    /\ lastSettled = "none"
    /\ lastResults = <<>>
    /\ burst = NoBurst
    /\ NoEnrich
    /\ NoAggregation

SchedInit ==
    \E names \in NameLists : \E rich \in {{}, {NRows}} :
        ViewOpened([i \in Rows |-> IF i \in rich THEN RichHolding(names[i])
                                   ELSE PlainHolding(names[i])],
                   rich /= {})

SchedNext ==
    \/ \E i \in Rows : VisibleEvent(i)
    \/ EnablePELoading
    \/ FireDebounce
    \/ \E k \in 1..Len(followUps) : FireFollowUp(k)
    \/ TimerStep
    \/ SettleOk
    \/ SettleOther
    \/ Teardown

SchedSpec == SchedInit /\ [][SchedNext]_vars

\* timers fire, time passes and calls settle; nothing forces the user to
\* scroll or to close the view
FairSchedSpec ==
    /\ SchedSpec
    /\ WF_vars(FireDebounce)
    /\ WF_vars(\E k \in 1..Len(followUps) : FireFollowUp(k))
    /\ WF_vars(TimerStep)
    /\ WF_vars(SettleOk \/ SettleOther)

\* a holding of three constituents, the first two under one name, and a view
\* that receives up to MaxWideVisible visibility events
MaxWideVisible == 4

WideHoldings == <<PlainHolding("Acme"), PlainHolding("Acme"), PlainHolding("Core")>>

WideNext ==
    \/ \E i \in DOMAIN WideHoldings : Visible(i, MaxWideVisible)
    \/ EnablePELoading
    \/ FireDebounce
    \/ \E k \in 1..Len(followUps) : FireFollowUp(k)
    \/ TimerStep
    \/ SettleOk
    \/ SettleOther
    \/ Teardown

WideSchedSpec == ViewOpened(WideHoldings, FALSE) /\ [][WideNext]_vars

-----------------------------------------------------------------------------
(* Ratio enrichment: peCache.ts, peEnricher.ts, api/mf/pe/batch/route.ts *)

HOUR == 60 * 60 * 1000

\* peCache.ts 14
PE_CACHE_TTL == 24 * 60 * 60 * 1000

\* peEnricher.ts 12: the PE_CACHE_TTL of the cache inside fetchPEFromScreener
SCREENER_CACHE_TTL == 3600000

\* peEnricher.ts 13
SYMBOL_CACHE_TTL == 86400000

\* route.ts 22: stocks.slice(0, 10)
ROUTE_BATCH_LIMIT == 10

\* peEnricher.ts 137
batchSize == 5

\* utils: isDebtInstrument; of the names here only the bond contains one of
\* the keywords ('%')
IsDebtInstrument(name) == name = "7.26% GOI 2033"

\* what a lookup yields: ratio, capitalization band, ticker (0 and "": absent)
NoData == [pe |-> 0, marketCap |-> "", symbol |-> ""]
FullData == [pe |-> 15, marketCap |-> "Large Cap", symbol |-> "SYM"]
TickerOnly == [pe |-> 0, marketCap |-> "", symbol |-> "SYM"]

\* what a provider can answer to one query; "throw": the request fails or
\* times out, which the callers' catch blocks turn into "nothing found"
ScreenerKinds == {"full", "none", "throw"}
NseKinds == {"symbol", "none", "throw"}

\* peCache.ts 22-37: getCachedPE, the value returned (Null: miss)
GetCachedPE(cache, name, t) ==
    LET entry == cache[CacheKey(name)]
    IN  IF entry = NoEntry THEN Null
        ELSE IF t - entry.timestamp > PE_CACHE_TTL THEN Null
        ELSE entry

\* peCache.ts 31-34: getCachedPE deletes the entry it finds expired
EvictPE(cache, name, t) ==
    LET entry == cache[CacheKey(name)]
    IN  IF entry /= NoEntry /\ t - entry.timestamp > PE_CACHE_TTL
        THEN [cache EXCEPT ![CacheKey(name)] = NoEntry]
        ELSE cache

\* peCache.ts 42-48: cachePE
CachePE(cache, name, data, t) ==
    [cache EXCEPT ![CacheKey(name)] =
        [pe |-> data.pe, marketCap |-> data.marketCap, symbol |-> data.symbol,
         timestamp |-> t]]

\* peEnricher.ts 58-62: the cache read of fetchPEFromScreener; a hit returns
\* ratio and band, no ticker (Null: miss)
ScreenerCached(cache, name, t) ==
    LET cached == cache[CacheKey(name)]
    IN  IF cached /= NoEntry /\ t - cached.timestamp < SCREENER_CACHE_TTL
        THEN [pe |-> cached.pe, marketCap |-> cached.marketCap, symbol |-> ""]
        ELSE Null

\* peEnricher.ts 103-106: fetchPEFromScreener stores a ratio it found
ScreenerStore(cache, name, data, t) ==
    IF data /= Null /\ data.pe /= 0
    THEN [cache EXCEPT ![CacheKey(name)] =
             [pe |-> data.pe, marketCap |-> data.marketCap, timestamp |-> t]]
    ELSE cache

\* peEnricher.ts 20-24: the cache read of searchNSESymbol ("": miss)
SymbolCached(cache, name, t) ==
    LET cached == cache[CacheKey(name)]
    IN  IF cached /= NoEntry /\ t - cached.timestamp < SYMBOL_CACHE_TTL
        THEN cached.symbol
        ELSE ""

\* peEnricher.ts 41-44: searchNSESymbol stores the ticker it found
SymbolStore(cache, name, symbol, t) ==
    IF symbol /= ""
    THEN [cache EXCEPT ![CacheKey(name)] = [symbol |-> symbol, timestamp |-> t]]
    ELSE cache

\* peEnricher.ts 56-114: what fetchPEFromScreener returns for the provider's answer
ScreenerData(kind) == IF kind = "full" THEN FullData ELSE Null

\* peEnricher.ts 18-51: what searchNSESymbol returns for the provider's answer
NseSymbol(kind) == IF kind = "symbol" THEN "SYM" ELSE ""

\* (mutant) the secondary provider is asked whatever the primary returned
NeedSecondary_Always(screenerData) ==
    TRUE

\* peEnricher.ts 121-125: fetchStockPE goes on to the secondary provider
\* unless the primary returned a ratio
NeedSecondary(screenerData) ==
    ~(screenerData /= Null /\ screenerData.pe /= 0)

\* peEnricher.ts 126-130: fetchStockPE's result from the ticker
SymbolResult(symbol) == IF symbol /= "" THEN [NoData EXCEPT !.symbol = symbol] ELSE NoData

\* one lookup: a name on its way through the route's callback or the bulk
\* path's callback. stage: "todo", "screener" and "nse" (a provider query is
\* outstanding), "done". via: how the lookup was answered; asked: the
\* providers queried; primary, secondary: what fetchPEFromScreener and
\* searchNSESymbol returned ("none": null); prev, at: the last completed lookup of the key and the
\* time, when this one began
NewLookup(name) ==
    [name |-> name, stage |-> "todo", res |-> NoData, via |-> "none", asked |-> {},
     primary |-> "pending", secondary |-> "pending", prev |-> Null, at |-> 0]

\* fetchStockPE up to its first suspension: fetchPEFromScreener answers from
\* its cache, or the primary provider is queried
BeginFetch(l, sc, t) ==
    LET cached == ScreenerCached(sc, l.name, t)
    IN  IF cached /= Null
        THEN [l EXCEPT !.stage = "done", !.res = cached, !.via = "fetch", !.primary = "cached"]
        ELSE [l EXCEPT !.stage = "screener", !.via = "fetch", !.asked = {"screener"}]

\* fetchStockPE when the primary provider has answered: return its data, or
\* searchNSESymbol answers from its cache, or the secondary provider is queried
AfterScreener(l, kind, symc, t) ==
    LET data == ScreenerData(kind)
        l1 == [l EXCEPT !.primary = IF data = Null THEN "none" ELSE "full"]
        cached == SymbolCached(symc, l.name, t)
    IN  IF ~NeedSecondary(data)
        THEN [l1 EXCEPT !.stage = "done", !.res = data]
        ELSE IF cached /= ""
        THEN [l1 EXCEPT !.stage = "done", !.res = SymbolResult(cached), !.secondary = "cached"]
        ELSE [l1 EXCEPT !.stage = "nse", !.asked = @ \cup {"nse"}]

\* fetchStockPE when the secondary provider has answered
AfterNse(l, kind) ==
    [l EXCEPT !.stage = "done", !.res = SymbolResult(NseSymbol(kind)),
              !.secondary = IF NseSymbol(kind) = "" THEN "none" ELSE "symbol"]

\* (mutant) the route processes every name it is sent
RouteBatch_NoCap(stocks) ==
    stocks

\* route.ts 22: the names the route processes
RouteBatch(stocks) ==
    Slice(stocks, ROUTE_BATCH_LIMIT)

\* route.ts 26-41: the callback for one name up to its first suspension
RouteCallback(name, rc, sc, t, prev) ==
    LET l == [NewLookup(name) EXCEPT !.prev = prev, !.at = t]
        cached == GetCachedPE(rc, name, t)
    IN  IF cached /= Null
        THEN [l EXCEPT !.stage = "done", !.via = "routeCache",
                       !.res = [pe |-> cached.pe, marketCap |-> cached.marketCap,
                                symbol |-> cached.symbol]]
        ELSE BeginFetch(l, sc, t)

\* peEnricher.ts 145-151: the callback for one holding up to its first suspension
BulkCallback(h, sc, t, prev) ==
    LET l == [NewLookup(h.name) EXCEPT !.prev = prev, !.at = t]
    IN  IF IsDebtInstrument(h.name)
        THEN [l EXCEPT !.stage = "done", !.via = "skipped"]
        ELSE BeginFetch(l, sc, t)

\* peEnricher.ts 146-160: the holding the callback returns
Enriched(h, l) ==
    IF l.via = "skipped" THEN h
    ELSE [h EXCEPT !.symbol = Or(l.res.symbol, @),
                   !.pe = OrNum(l.res.pe, @),
                   !.marketCap = Or(l.res.marketCap, @)]

\* (mutant) the route leaves out the names for which nothing was found
RouteResults_DropFailed(look) ==
    LET all == [j \in 1..Len(look) |->
                   [name |-> look[j].name, pe |-> look[j].res.pe,
                    marketCap |-> look[j].res.marketCap, symbol |-> look[j].res.symbol]]
    IN  SelectSeq(all, LAMBDA r : r.pe /= 0 \/ r.symbol /= "")

\* route.ts 31-36, 47-52, 58-59: the results of the response
RouteResults(look) ==
    [j \in 1..Len(look) |->
        [name |-> look[j].name, pe |-> look[j].res.pe,
         marketCap |-> look[j].res.marketCap, symbol |-> look[j].res.symbol]]

\* (mutant) a chunk of six
ChunkEnd_Six(i, n) ==
    IF i + batchSize + 1 < n THEN i + batchSize + 1 ELSE n

\* peEnricher.ts 142: holdings.slice(i, i + batchSize) ends here
ChunkEnd(i, n) ==
    IF i + batchSize < n THEN i + batchSize ELSE n

\* route.ts 28: getCachedPE deletes what it finds expired, name by name
RECURSIVE EvictAll(_, _, _)
EvictAll(cache, names, t) ==
    IF names = <<>> THEN cache
    ELSE EvictAll(EvictPE(cache, Head(names), t), Tail(names), t)

\* route.ts 44: cachePE for the lookups that fetchStockPE answered at once
RECURSIVE RouteWrites(_, _, _)
RouteWrites(cache, look, t) ==
    IF look = <<>> THEN cache
    ELSE LET l == Head(look)
         IN  RouteWrites(IF l.stage = "done" /\ l.via = "fetch"
                         THEN CachePE(cache, l.name, l.res, t) ELSE cache,
                         Tail(look), t)

\* history: the lookups just completed, by key
RECURSIVE NoteDone(_, _, _)
NoteDone(le, look, t) ==
    IF look = <<>> THEN le
    ELSE LET l == Head(look)
         IN  NoteDone(IF l.stage = "done" /\ l.via \in {"fetch", "routeCache"}
                      THEN [le EXCEPT ![CacheKey(l.name)] = [at |-> t, res |-> l.res]]
                      ELSE le,
                      Tail(look), t)

\* the requests sent to the batch endpoint
LongList == [j \in 1..(ROUTE_BATCH_LIMIT + 1) |->
                IF j > ROUTE_BATCH_LIMIT THEN "Bolt"
                ELSE IF j % 2 = 1 THEN "Acme Ltd" ELSE " ACME LTD "]

RequestLists == {<<"Acme Ltd">>, <<" ACME LTD ", "7.26% GOI 2033">>, LongList}

\* a full chunk of shares and one more holding
FullChunkList ==
    [j \in 1..(batchSize + 1) |->
        IF j % 2 = 1 THEN PlainHolding("Acme Ltd") ELSE PlainHolding(" ACME LTD ")]

\* the holdings given to the bulk path: a short list, and a list of one full
\* chunk and one more holding; of the full chunk the first MaxOutstanding
\* holdings are shares, the others bonds
BulkLists ==
    {<<PlainHolding("Acme Ltd"), PlainHolding("7.26% GOI 2033")>>,
     [j \in 1..(batchSize + 1) |->
        IF j > batchSize THEN PlainHolding("Acme Ltd")
        ELSE IF j > MaxOutstanding THEN PlainHolding("7.26% GOI 2033")
        ELSE IF j % 2 = 1 THEN PlainHolding("Acme Ltd") ELSE PlainHolding(" ACME LTD ")],
     FullChunkList}

Outstanding(look) == {j \in 1..Len(look) : look[j].stage \in {"screener", "nse"}}

OpOver == op.stage \in {"responded", "returned"}

-----------------------------------------------------------------------------
(* Actions of ratio enrichment *)

\* route.ts 12-56: POST /api/mf/pe/batch up to await Promise.all
PostStart(stocks) ==
    LET batch == RouteBatch(stocks)
        look == [j \in 1..Len(batch) |->
                    RouteCallback(batch[j], routeCache, screenerCache, now,
                                  lastEnrich[CacheKey(batch[j])])]
    IN  /\ OpOver
        /\ nOps < MaxOps
        /\ Cardinality(Outstanding(look)) <= MaxOutstanding
        /\ nOps' = nOps + 1
        /\ routeCache' = RouteWrites(EvictAll(routeCache, batch, now), look, now)
        /\ lastEnrich' = NoteDone(lastEnrich, look, now)
        /\ op' = [kind |-> "batch", stage |-> "lookups", stocks |-> stocks,
                  holdings |-> <<>>, look |-> look, results |-> <<>>, status |-> 0,
                  i |-> 0, sleeps |-> 0, enriched |-> <<>>]
        /\ UNCHANGED <<rvars, svars, avars, screenerCache, symbolCache>>

\* the lookups of holdings i+1 .. ChunkEnd begin
StartChunk(look, holdings, i) ==
    [j \in 1..Len(holdings) |->
        IF j > i /\ j <= ChunkEnd(i, Len(holdings))
        THEN BulkCallback(holdings[j], screenerCache, now, lastEnrich[CacheKey(holdings[j].name)])
        ELSE look[j]]

\* peEnricher.ts 136-162: enrichHoldingsWithPE up to the first await Promise.all
BulkStart(holdings) ==
    LET look == StartChunk([j \in 1..Len(holdings) |-> NewLookup(holdings[j].name)], holdings, 0)
    IN  /\ OpOver
        /\ nOps < MaxOps
        /\ holdings = FullChunkList => nOps = 0
        /\ nOps' = nOps + 1
        /\ lastEnrich' = NoteDone(lastEnrich, look, now)
        /\ op' = [kind |-> "bulk", stage |-> "lookups", stocks |-> <<>>,
                  holdings |-> holdings, look |-> look, results |-> <<>>, status |-> 0,
                  i |-> 0, sleeps |-> 0, enriched |-> <<>>]
        /\ UNCHANGED <<rvars, svars, avars, routeCache, screenerCache, symbolCache>>

\* a lookup has reached l: when it is done the route caches its result
\* (route.ts 44); the bulk path does not
LookupMoves(j, l) ==
    /\ op' = [op EXCEPT !.look[j] = l]
    /\ routeCache' = IF l.stage = "done" /\ op.kind = "batch"
                     THEN CachePE(routeCache, l.name, l.res, now) ELSE routeCache
    /\ lastEnrich' = IF l.stage = "done"
                     THEN [lastEnrich EXCEPT ![CacheKey(l.name)] = [at |-> now, res |-> l.res]]
                     ELSE lastEnrich

\* the primary provider answers the query of lookup j
ScreenerReturn(j, kind) ==
    /\ ~OpOver
    /\ j \in 1..Len(op.look)
    /\ op.look[j].stage = "screener"
    /\ screenerCache' = ScreenerStore(screenerCache, op.look[j].name, ScreenerData(kind), now)
    /\ LookupMoves(j, AfterScreener(op.look[j], kind, symbolCache, now))
    /\ UNCHANGED <<rvars, svars, avars, symbolCache, nOps>>

\* the secondary provider answers the query of lookup j
NseReturn(j, kind) ==
    /\ ~OpOver
    /\ j \in 1..Len(op.look)
    /\ op.look[j].stage = "nse"
    /\ symbolCache' = SymbolStore(symbolCache, op.look[j].name, NseSymbol(kind), now)
    /\ LookupMoves(j, AfterNse(op.look[j], kind))
    /\ UNCHANGED <<rvars, svars, avars, screenerCache, nOps>>

\* route.ts 58-61: every callback has returned, the response is sent
PostRespond ==
    /\ ~OpOver
    /\ op.kind = "batch"
    /\ \A j \in 1..Len(op.look) : op.look[j].stage = "done"
    /\ op' = [op EXCEPT !.stage = "responded", !.results = RouteResults(op.look),
                        !.status = 200]
    /\ UNCHANGED <<rvars, svars, avars, routeCache, screenerCache, symbolCache, nOps, lastEnrich>>

\* peEnricher.ts 162-172: the chunk's callbacks have all returned; the run
\* sleeps if holdings remain, and returns if not
ChunkDone ==
    LET n == Len(op.holdings)
        last == ChunkEnd(op.i, n)
    IN  /\ ~OpOver
        /\ op.kind = "bulk"
        /\ op.stage = "lookups"
        /\ \A j \in (op.i + 1)..last : op.look[j].stage = "done"
        /\ op' = [op EXCEPT
                    !.enriched = @ \o [j \in 1..(last - op.i) |->
                                         Enriched(op.holdings[op.i + j], op.look[op.i + j])],
                    !.stage = IF op.i + batchSize < n THEN "sleep" ELSE "returned",
                    !.sleeps = IF op.i + batchSize < n THEN @ + 1 ELSE @]
        /\ UNCHANGED <<rvars, svars, avars, routeCache, screenerCache, symbolCache, nOps, lastEnrich>>

\* peEnricher.ts 141, 168: sleep(200) is over, the next chunk begins
Wake ==
    /\ ~OpOver
    /\ op.kind = "bulk"
    /\ op.stage = "sleep"
    /\ LET look == StartChunk(op.look, op.holdings, op.i + batchSize)
       IN  /\ op' = [op EXCEPT !.i = @ + batchSize, !.stage = "lookups", !.look = look]
           /\ lastEnrich' = NoteDone(lastEnrich,
                                     SubSeq(look, op.i + batchSize + 1, Len(look)), now)
    /\ UNCHANGED <<rvars, svars, avars, routeCache, screenerCache, symbolCache, nOps>>

\* time passes between operations: to one hour before the 24 hours are over,
\* then hour by hour
ETick ==
    /\ OpOver
    /\ now < PE_CACHE_TTL + (MaxTicks - 2) * HOUR
    /\ now' = IF now = 0 THEN PE_CACHE_TTL - HOUR ELSE now + HOUR
    /\ UNCHANGED <<portfolioCache, localStorage, call, nRequests, lastRes, svars, evars, avars>>

EnrichNext ==
    \/ \E stocks \in RequestLists : PostStart(stocks)
    \/ \E holdings \in BulkLists : BulkStart(holdings)
    \/ \E j \in 1..(batchSize + ROUTE_BATCH_LIMIT) : \E kind \in ScreenerKinds : ScreenerReturn(j, kind)
    \/ \E j \in 1..(batchSize + ROUTE_BATCH_LIMIT) : \E kind \in NseKinds : NseReturn(j, kind)
    \/ PostRespond
    \/ ChunkDone
    \/ Wake
    \/ ETick

EnrichSpec == Init /\ [][EnrichNext]_vars

-----------------------------------------------------------------------------
(* The aggregation endpoint: POST top-holdings, dashboard/page.tsx 378-507 *)

\* number of folios (input holdings) in one aggregation request
MaxFolios == 3

(* JavaScript numbers are modelled as exact fractions [n, d] in lowest terms, *)
(* d > 0; the rounding of IEEE doubles is left out.                          *)
RECURSIVE Gcd(_, _)
Gcd(a, b) == IF b = 0 THEN a ELSE Gcd(b, a % b)

Frac(n, d) == LET g == Gcd(n, d) IN [n |-> n \div g, d |-> d \div g]
Whole(n) == [n |-> n, d |-> 1]
Plus(a, b) == Frac(a.n * b.d + b.n * a.d, a.d * b.d)
Times(a, b) == Frac(a.n * b.n, a.d * b.d)
Over(a, b) == Frac(a.n * b.d, a.d * b.n)
Greater(a, b) == a.n * b.d > b.n * a.d

\* the folios a request may carry: price and quantity are chosen so that a
\* value of 0, a total of 0 and the values 100,000 and 300,000 occur
Prices == {0, 1000}
Quantities == {100, 300}
Folios == { [tradingsymbol |-> isin, fund |-> FundNameOf(isin), last_price |-> p, quantity |-> q] :
                isin \in Isins, p \in Prices, q \in Quantities }
FolioLists == UNION { [1..n -> Folios] : n \in 0..MaxFolios }

\* a constituent row of a resolved Composition (pe 0: not set)
Row(name, percentage, pe) == [name |-> name, percentage |-> percentage, pe |-> pe]

\* what fetchFundPortfolio may hand back for a fund: no constituents, two
\* constituents at 40% / 60%, the same under another spelling of the first
\* name, and a composition that lists one constituent in two rows
Portfolios ==
    { [holdings |-> <<>>],
      [holdings |-> <<Row("Acme Ltd", 40, 0), Row("Bolt", 60, 25)>>],
      [holdings |-> <<Row(" ACME LTD ", 40, 18), Row("Bolt", 60, 0)>>],
      [holdings |-> <<Row("Acme Ltd", 30, 0), Row(" ACME LTD ", 20, 0), Row("Bolt", 50, 0)>>] }

\* first index at which the sequence holds the value (0: none)
IndexOf(seq, v) ==
    IF \E i \in DOMAIN seq : seq[i] = v
    THEN CHOOSE i \in DOMAIN seq : seq[i] = v /\ \A j \in DOMAIN seq : seq[j] = v => i <= j
    ELSE 0

\* (mutant) every folio stays a fund of its own
ConsolidateOne_NoMerge(acc, mf) ==
    LET value == mf.last_price * mf.quantity IN
    [totalPortfolioValue |-> acc.totalPortfolioValue + value,
     funds |-> Append(acc.funds, [tradingsymbol |-> mf.tradingsymbol, fund |-> mf.fund,
                                  totalValue |-> value])]

\* page.tsx 410-424: one turn of the consolidation loop
ConsolidateOne(acc, mf) ==
    LET value == mf.last_price * mf.quantity
        at == IndexOf([i \in DOMAIN acc.funds |-> acc.funds[i].fund], mf.fund)
    IN
    [totalPortfolioValue |-> acc.totalPortfolioValue + value,
     funds |-> IF at > 0
               THEN [acc.funds EXCEPT ![at].totalValue = @ + value]
               ELSE Append(acc.funds, [tradingsymbol |-> mf.tradingsymbol, fund |-> mf.fund,
                                       totalValue |-> value])]

\* page.tsx 403-424: consolidatedFunds (in insertion order) and totalPortfolioValue
RECURSIVE Consolidate(_, _, _)
Consolidate(mfHoldings, k, acc) ==
    IF k > Len(mfHoldings) THEN acc
    ELSE Consolidate(mfHoldings, k + 1, ConsolidateOne(acc, mfHoldings[k]))

\* page.tsx 432
FundWeight(fundValue, totalPortfolioValue) ==
    IF totalPortfolioValue > 0
    THEN Times(Over(Whole(fundValue), Whole(totalPortfolioValue)), Whole(100))
    ELSE Whole(0)

\* page.tsx 440
HoldingValueInFund(percentage, fundValue) ==
    Times(Over(Whole(percentage), Whole(100)), Whole(fundValue))

\* (mutant) the constituent's weight is not scaled by the fund's weight
HoldingPercentageInPortfolio_Unscaled(percentage, fundWeight) ==
    Whole(percentage)

\* page.tsx 441
HoldingPercentageInPortfolio(percentage, fundWeight) ==
    Times(Over(Whole(percentage), Whole(100)), fundWeight)

\* (mutant) the key is the name as written
HoldingKey_AsWritten(name) == name

\* page.tsx 443: holding.name.toLowerCase().trim()
HoldingKey(name) == CacheKey(name)

\* (mutant) a contribution is appended whether or not the fund is listed
AddContribution_Append(funds, fund, percentage, value) ==
    Append(funds, [name |-> fund, percentage |-> percentage, value |-> value])

\* page.tsx 450-463: the fund's contribution to an existing record
AddContribution(funds, fund, percentage, value) ==
    LET at == IndexOf([i \in DOMAIN funds |-> funds[i].name], fund)
    IN
    IF at > 0
    THEN [funds EXCEPT ![at].percentage = @ + percentage, ![at].value = Plus(@, value)]
    ELSE Append(funds, [name |-> fund, percentage |-> percentage, value |-> value])

\* page.tsx 438-485: one constituent of one fund enters holdingsMap (a Map:
\* insertion order kept, one record per key)
AddHolding(map, mf, fundWeight, holding) ==
    LET holdingValueInFund == HoldingValueInFund(holding.percentage, mf.totalValue)
        holdingPercentageInPortfolio ==
            HoldingPercentageInPortfolio(holding.percentage, fundWeight)
        key == HoldingKey(holding.name)
        at == IndexOf([i \in DOMAIN map |-> map[i].key], key)
    IN
    IF at > 0
    THEN [map EXCEPT
            ![at].totalValue = Plus(@, holdingValueInFund),
            ![at].totalPercentage = Plus(@, holdingPercentageInPortfolio),
            ![at].funds = AddContribution(@, mf.fund, holding.percentage, holdingValueInFund),
            ![at].pe = IF @ = 0 /\ holding.pe /= 0 THEN holding.pe ELSE @]
    ELSE Append(map, [key |-> key, name |-> holding.name,
                      totalValue |-> holdingValueInFund,
                      totalPercentage |-> holdingPercentageInPortfolio,
                      funds |-> <<[name |-> mf.fund, percentage |-> holding.percentage,
                                   value |-> holdingValueInFund]>>,
                      pe |-> holding.pe])

\* page.tsx 437-487: the constituents of one resolved fund, in order
RECURSIVE AddPortfolio(_, _, _, _, _)
AddPortfolio(map, mf, fundWeight, holdings, k) ==
    IF k > Len(holdings) THEN map
    ELSE AddPortfolio(AddHolding(map, mf, fundWeight, holdings[k]), mf, fundWeight,
                      holdings, k + 1)

\* page.tsx 494-495: Array.prototype.sort is stable; descending totalPercentage
RECURSIVE InsertSorted(_, _)
InsertSorted(sorted, e) ==
    IF sorted = <<>> THEN <<e>>
    ELSE IF Greater(e.totalPercentage, Head(sorted).totalPercentage)
    THEN <<e>> \o sorted
    ELSE <<Head(sorted)>> \o InsertSorted(Tail(sorted), e)

RECURSIVE SortHoldings(_, _)
SortHoldings(map, k) ==
    IF k = 0 THEN <<>> ELSE InsertSorted(SortHoldings(map, k - 1), map[k])

\* page.tsx 497-502: the response body
AggResponse(a) ==
    LET allHoldings == SortHoldings(a.holdingsMap, Len(a.holdingsMap)) IN
    [holdings |-> allHoldings, totalHoldings |-> Len(allHoldings),
     totalPortfolioValue |-> a.totalPortfolioValue, totalFunds |-> Len(a.uniqueFunds)]

\* page.tsx 430-435: the loop reaches fund i and awaits fetchFundPortfolio, or
\* has passed the last fund and responds
AggAdvance(a, i) ==
    IF i <= Len(a.uniqueFunds)
    THEN [a EXCEPT !.stage = "resolving", !.i = i,
                   !.resolved = Append(@, [isin |-> a.uniqueFunds[i].tradingsymbol,
                                            fundName |-> a.uniqueFunds[i].fund])]
    ELSE [a EXCEPT !.stage = "responded", !.i = i, !.response = AggResponse(a)]

\* page.tsx 388-435: a request arrives; the folios are consolidated and the
\* first fund's composition is asked for
AggPost(mfHoldings) ==
    /\ agg.stage = "idle"
    /\ LET c == Consolidate(mfHoldings, 1, [totalPortfolioValue |-> 0, funds |-> <<>>]) IN
       agg' = AggAdvance([IdleAgg EXCEPT !.mfHoldings = mfHoldings,
                                         !.uniqueFunds = c.funds,
                                         !.totalPortfolioValue = c.totalPortfolioValue], 1)
    /\ UNCHANGED <<rvars, svars, evars, scrape, lastWrite>>

\* page.tsx 435-502: fetchFundPortfolio answers for fund i; its constituents are
\* merged, then the next fund is asked for or the response is sent
AggResolved(portfolio) ==
    /\ agg.stage = "resolving"
    /\ LET mf == agg.uniqueFunds[agg.i]
           fundWeight == FundWeight(mf.totalValue, agg.totalPortfolioValue)
           merged == IF Len(portfolio.holdings) > 0
                     THEN AddPortfolio(agg.holdingsMap, mf, fundWeight, portfolio.holdings, 1)
                     ELSE agg.holdingsMap
       IN
       agg' = AggAdvance([agg EXCEPT !.holdingsMap = merged,
                                     !.portfolios = Append(@, portfolio)], agg.i + 1)
    /\ UNCHANGED <<rvars, svars, evars, scrape, lastWrite>>

AggNext ==
    \/ \E mfHoldings \in FolioLists : AggPost(mfHoldings)
    \/ \E portfolio \in Portfolios : AggResolved(portfolio)

AggSpec == Init /\ [][AggNext]_vars

-----------------------------------------------------------------------------
(* Concurrent requests: two GET /api/mf/<isin> handlers interleave at their *)
(* awaits and share portfolioCache                                           *)

\* number of composition requests in a behaviour with concurrent handlers
MaxConcRequests == 3
\* number of clock steps in such a behaviour
MaxConcTicks == 1

\* what an adapter answers here: a composition, or none (an exception is
\* caught by the loop and counts as none)
ConcScraperKinds == {"ok", "empty"}

\* a browser sends GET /api/mf/<isin> for the holding while another request
\* for it may be in progress
ConcurrentRequest(c) ==
    /\ call[c].pc = "idle"
    /\ nRequests < MaxConcRequests
    /\ nRequests' = nRequests + 1
    /\ call' = [call EXCEPT ![c] =
            [IdleCall EXCEPT !.pc = "sent", !.isin = ViewIsin, !.via = "other"]]
    /\ UNCHANGED <<now, portfolioCache, localStorage, lastRes, svars, evars, avars>>

\* time passes
ConcTick ==
    /\ now < MaxConcTicks * TickStep
    /\ now' = now + TickStep
    /\ UNCHANGED <<portfolioCache, localStorage, call, nRequests, lastRes, svars, evars, avars>>

ConcNext ==
    \/ \E c \in Calls : ConcurrentRequest(c)
    \/ \E c \in Calls : ServerStart(c)
    \/ \E c \in Calls : \E kind \in MfapiKinds : MfapiReturn(c, kind)
    \/ \E c \in Calls : \E kind \in ConcScraperKinds : ScraperReturn(c, kind)
    \/ \E c \in Calls : Respond(c)
    \/ ConcTick

ConcSpec == Init /\ [][ConcNext]_vars

-----------------------------------------------------------------------------
(* The Source Adapters' row filters: scrapers/*.ts *)

\* number of rows in the provider's holdings list or table
MaxRawRows == 2

\* a row as the provider sends it: the name ("": none), the weight as a JSON
\* number (0: none), and the weight as the text of a table cell
RawRows ==
    { [name |-> "Acme Ltd", percentage |-> 40, text |-> "40.00%"],
      [name |-> "Bolt", percentage |-> 0, text |-> "-"],
      [name |-> "Total", percentage |-> 100, text |-> "100.00%"],
      [name |-> "Grand Total", percentage |-> 100, text |-> "100.00%"],
      [name |-> "", percentage |-> 5, text |-> "5"] }

RowLists == UNION { [1..n -> RawRows] : n \in 0..MaxRawRows }

\* moneycontrol.ts 64, valueResearch.ts 54:
\* parseFloat(percentText.replace('%', '').replace(',', '')) || 0
PercentOf(text) ==
    CASE text = "40.00%" -> 40
      [] text = "100.00%" -> 100
      [] text = "5" -> 5
      [] text = "-" -> 0

\* moneycontrol.ts 66: name.toLowerCase().includes('total')
IncludesTotal(name) == name \in {"Total", "Grand Total"}

\* groww.ts 117-123, tickertape.ts 48-58, etmoney.ts 43-53: map, then filter
JsonHoldings(rows) ==
    LET mapped == [k \in DOMAIN rows |->
                      [name |-> IF rows[k].name = "" THEN "Unknown" ELSE rows[k].name,
                       percentage |-> rows[k].percentage]]
        Kept(h) == h.percentage > 0
    IN SelectSeq(mapped, Kept)

\* moneycontrol.ts 58-70
MoneycontrolHoldings(rows) ==
    LET parsed == [k \in DOMAIN rows |->
                      [name |-> rows[k].name, percentage |-> PercentOf(rows[k].text)]]
        Kept(h) == h.name /= "" /\ h.percentage > 0 /\ ~IncludesTotal(h.name)
    IN SelectSeq(parsed, Kept)

\* valueResearch.ts 49-60
ValueResearchHoldings(rows) ==
    LET parsed == [k \in DOMAIN rows |->
                      [name |-> rows[k].name, percentage |-> PercentOf(rows[k].text)]]
        Kept(h) == h.name /= "" /\ h.percentage > 0 /\ h.name /= "Total"
    IN SelectSeq(parsed, Kept)

AdapterHoldings(adapter, rows) ==
    CASE adapter \in {"Groww", "Tickertape", "ETMoney"} -> JsonHoldings(rows)
      [] adapter = "Moneycontrol" -> MoneycontrolHoldings(rows)
      [] adapter = "ValueResearch" -> ValueResearchHoldings(rows)

\* groww.ts 132-152 and the same test in the other adapters: a Composition
\* when a row is left, null otherwise
AdapterResult(adapter, rows) ==
    LET holdings == AdapterHoldings(adapter, rows) IN
    IF Len(holdings) > 0
    THEN [holdings |-> holdings, source |-> SourceLabel(adapter)]
    ELSE Null

\* an adapter reads the provider's rows and returns
Scrape(adapter, rows) ==
    /\ scrape' = [adapter |-> adapter, rows |-> rows, result |-> AdapterResult(adapter, rows)]
    /\ UNCHANGED <<rvars, svars, evars, agg, lastWrite>>

ScrapeNext ==
    \E k \in DOMAIN SCRAPERS : \E rows \in RowLists : Scrape(SCRAPERS[k], rows)

ScrapeSpec == Init /\ [][ScrapeNext]_vars

-----------------------------------------------------------------------------
(* Properties of ratio enrichment *)

Min(a, b) == IF a < b THEN a ELSE b

\* the lookups of the operation in progress (or of the last one)
Lookups == {op.look[j] : j \in 1..Len(op.look)}

\* C14: the batch endpoint processes the first 10 names of a request in
\* request order and no others: there is a lookup for each of them and for no
\* further name (the 11th name, asked for nowhere else, is in no cache and was
\* never looked up), and the response has exactly min(n, 10) results, in order.
C14_RouteCap ==
    op.kind = "batch" =>
       /\ Len(op.look) = Min(Len(op.stocks), 10)
       /\ \A j \in 1..Len(op.look) : op.look[j].name = op.stocks[j]
       /\ \A j \in 11..Len(op.stocks) :
             /\ routeCache[CacheKey(op.stocks[j])] = NoEntry
             /\ screenerCache[CacheKey(op.stocks[j])] = NoEntry
             /\ symbolCache[CacheKey(op.stocks[j])] = NoEntry
             /\ lastEnrich[CacheKey(op.stocks[j])] = Null
       /\ op.stage = "responded" =>
             /\ Len(op.results) = Min(Len(op.stocks), 10)
             /\ \A j \in 1..Len(op.results) : op.results[j].name = op.stocks[j]

\* a request of 11 names has been answered with 10 results
C14_Witness ==
    /\ op.kind = "batch"
    /\ op.stage = "responded"
    /\ Len(op.stocks) = 11
    /\ Len(op.results) = 10
    /\ op.stocks[11] = "Bolt"

\* C15: the response of a batch is a success response with one entry for
\* every name processed, in order; the entry of a name whose lookup found
\* nothing has ratio, band and ticker absent.
C15_OneEntryPerName ==
    (op.kind = "batch" /\ op.stage = "responded") =>
       /\ op.status = 200
       /\ Len(op.results) = Len(op.look)
       /\ \A j \in 1..Len(op.look) :
             /\ op.results[j].name = op.look[j].name
             /\ op.look[j].res = NoData =>
                   /\ op.results[j].pe = 0
                   /\ op.results[j].marketCap = ""
                   /\ op.results[j].symbol = ""

\* a response in which one name has a ratio and the lookup of another failed
\* at both providers
C15_Witness ==
    /\ op.kind = "batch"
    /\ op.stage = "responded"
    /\ \E j, k \in 1..Len(op.results) :
          /\ op.results[j].pe /= 0
          /\ op.look[k].asked = {"screener", "nse"}
          /\ op.look[k].secondary = "none"
          /\ op.results[k] = [name |-> op.look[k].name, pe |-> 0, marketCap |-> "", symbol |-> ""]

\* C16: a name that matches the fixed-income heuristic is never sent to a
\* provider and comes back without a ratio, on the bulk path and on the batch
\* endpoint.
C16_DebtNeverLookedUp ==
    \A l \in Lookups :
        IsDebtInstrument(l.name) => l.asked = {} /\ l.res.pe = 0

\* C17: in fetchStockPE the secondary provider is asked only after the primary
\* gave no ratio; a primary that gives a ratio ends the lookup with it; primary
\* failing and secondary giving a ticker yields the ticker and no ratio; both
\* failing yields nothing; and the lookup never ends by throwing.
C17_FallbackOrder ==
    \A l \in Lookups :
        l.via = "fetch" =>
           /\ l.stage \in {"screener", "nse", "done"}
           /\ "nse" \in l.asked => l.primary = "none"
           /\ l.primary \in {"full", "cached"} =>
                 /\ l.stage = "done"
                 /\ "nse" \notin l.asked
                 /\ l.secondary = "pending"
                 /\ l.res.pe /= 0
           /\ (l.stage = "done" /\ l.primary = "none") =>
                 /\ l.secondary \in {"symbol", "cached"} => l.res = TickerOnly
                 /\ l.secondary = "none" => l.res = NoData

\* the primary failed, the secondary was asked and gave the ticker
C17_Witness ==
    \E l \in Lookups :
        /\ l.via = "fetch"
        /\ l.stage = "done"
        /\ l.primary = "none"
        /\ l.asked = {"screener", "nse"}
        /\ l.secondary = "symbol"
        /\ l.res = TickerOnly

\* C18: a lookup of a share answers from the Ratio Cache when it can, and what
\* it obtained otherwise is in the Ratio Cache when it returns; so a lookup
\* that begins less than the time-to-live after the last lookup of the same
\* key asks no provider and returns the same ratio, band and ticker.
C18_SecondLookupFromCache ==
    \A l \in Lookups :
        (l.stage = "done" /\ l.via \in {"fetch", "routeCache"}) =>
           /\ l.via = "fetch" =>
                 /\ routeCache[CacheKey(l.name)] /= NoEntry
                 /\ routeCache[CacheKey(l.name)].timestamp >= l.at
           /\ (l.prev /= Null /\ l.at - l.prev.at < PE_CACHE_TTL) =>
                 /\ l.asked = {}
                 /\ l.res = l.prev.res

\* C19: in every timed cache of compositions or ratios an entry written less
\* than 24 hours ago is a hit that returns what was stored.
C19_HitWithin24Hours ==
    /\ \A n \in StockNames :
          LET k == CacheKey(n) IN
          /\ (routeCache[k] /= NoEntry /\ now - routeCache[k].timestamp < 24 * HOUR) =>
                GetCachedPE(routeCache, n, now) = routeCache[k]
          /\ (screenerCache[k] /= NoEntry /\ now - screenerCache[k].timestamp < 24 * HOUR) =>
                /\ ScreenerCached(screenerCache, n, now) /= Null
                /\ ScreenerCached(screenerCache, n, now).pe = screenerCache[k].pe
          /\ (symbolCache[k] /= NoEntry /\ now - symbolCache[k].timestamp < 24 * HOUR) =>
                SymbolCached(symbolCache, n, now) = symbolCache[k].symbol
    /\ \A i \in Isins :
          /\ (portfolioCache[i] /= NoEntry /\ now - portfolioCache[i].timestamp < 24 * HOUR) =>
                GetCachedPortfolio(portfolioCache, i, now) = portfolioCache[i].data
          /\ (localStorage[i] /= NoEntry /\ now - localStorage[i].timestamp < 24 * HOUR) =>
                LsGetCachedPortfolio(localStorage, i, now) = localStorage[i].data

\* C20: the bulk path works through the holdings in chunks of 5 in list order:
\* never more than 5 lookups outstanding, a chunk's lookups begin only when
\* all earlier chunks are complete and a pacing delay has passed after each of
\* them, and the run returns after the last chunk without a further delay.
C20_ChunksOfFive ==
    op.kind = "bulk" =>
       LET n == Len(op.holdings) IN
       /\ Cardinality(Outstanding(op.look)) <= 5
       /\ op.i % 5 = 0
       /\ \A j \in 1..n :
             /\ j <= op.i => op.look[j].stage = "done"
             /\ j > op.i + 5 => op.look[j].stage = "todo"
             /\ (j > op.i /\ op.stage \in {"sleep", "returned"}) =>
                   op.look[j].stage = IF j <= op.i + 5 THEN "done" ELSE "todo"
       /\ op.sleeps = (op.i \div 5) + (IF op.stage = "sleep" THEN 1 ELSE 0)
       /\ op.stage = "returned" =>
             /\ op.i + 5 >= n
             /\ op.sleeps = (n - 1) \div 5
             /\ Len(op.enriched) = n
             /\ \A j \in 1..n : op.enriched[j].name = op.holdings[j].name

\* a list of 6 shares has been enriched in two chunks with one delay; the five
\* lookups of the first chunk all queried the primary provider at once
C20_Witness ==
    /\ op.kind = "bulk"
    /\ op.stage = "returned"
    /\ Len(op.holdings) = 6
    /\ op.i = 5
    /\ op.sleeps = 1
    /\ \A j \in 1..5 : "screener" \in op.look[j].asked
    /\ op.look[6].stage = "done"

-----------------------------------------------------------------------------
(* Properties of the resolver *)

Populated(comp) == comp /= Null /\ Len(comp.holdings) > 0

\* the call has looked into the cache
Looked(c) == call[c].pc \in {"mfapi", "scraper", "done", "threw"}

\* C1: fetchFundPortfolio invokes the Source Adapters one at a time in the
\* declared order and stops at the first one that returns a non-empty
\* constituent list: every adapter invoked before the last one failed, the
\* result carries the source label of the last adapter invoked, no adapter
\* after it is invoked, and only when all five failed is the result empty.
C1_FirstSuccessWins ==
    \A c \in Calls :
        LET cr == call[c]
            n == Len(cr.invoked)
        IN  (Looked(c) /\ ~cr.hit) =>
              /\ cr.invoked = SubSeq(SCRAPERS, 1, n)
              /\ cr.pc = "scraper" => (n >= 1 /\ cr.failed = n - 1)
              /\ (cr.pc = "done" /\ Populated(cr.result)) =>
                    /\ n >= 1
                    /\ cr.failed = n - 1
                    /\ cr.result.source = SourceLabel(SCRAPERS[n])
              /\ (cr.pc = "done" /\ ~Populated(cr.result)) =>
                    /\ cr.invoked = SCRAPERS
                    /\ cr.failed = Len(SCRAPERS)

\* the first adapter threw, the second succeeded, the third was never invoked
C1_Witness ==
    \E c \in Calls :
        /\ call[c].pc = "done"
        /\ call[c].threw
        /\ call[c].invoked = <<"Groww", "Tickertape">>
        /\ call[c].result.source = "Tickertape"

\* C2: when the last chain-running resolution of an identifier obtained a
\* composition and a later call looks the identifier up no more than CACHE_TTL
\* after it, the call returns that very Composition and makes no outbound call:
\* neither the registry lookup nor any Source Adapter is invoked.
C2_HitWithinTtl ==
    \A c \in Calls :
        LET cr == call[c] IN
        (/\ Looked(c)
         /\ (cr.prior /= Null /\ Populated(cr.prior.data))
         /\ cr.lookupAt - cr.prior.at <= CACHE_TTL)
        => /\ cr.pc = "done"
           /\ cr.hit
           /\ cr.result = cr.prior.data
           /\ ~cr.mfapiCalled
           /\ cr.invoked = <<>>

\* a second resolution, a full TTL after the first, answered from the cache
C2_Witness ==
    \E c \in Calls :
        /\ call[c].pc = "done"
        /\ call[c].hit
        /\ call[c].prior /= Null
        /\ Populated(call[c].prior.data)
        /\ call[c].lookupAt - call[c].prior.at = CACHE_TTL
        /\ call[c].result.lastUpdated < call[c].lookupAt

\* C3: when more than CACHE_TTL has passed since the Composition of an
\* identifier was cached, the next call behaves as a miss: the read evicts the
\* expired entry, the registry and the adapters (from the first) are called
\* again, and the entry afterwards is the fresh result, or absent when no
\* adapter succeeded.
C3_ExpiredIsMiss ==
    \A c \in Calls :
        LET cr == call[c] IN
        (/\ Looked(c)
         /\ (cr.prior /= Null /\ Populated(cr.prior.data))
         /\ cr.lookupAt - cr.prior.at > CACHE_TTL)
        => /\ ~cr.hit
           /\ cr.mfapiCalled
           /\ cr.pc /= "mfapi" => (cr.invoked /= <<>> /\ cr.invoked[1] = SCRAPERS[1])
           /\ cr.pc \in {"mfapi", "scraper"} => portfolioCache[cr.isin] = NoEntry
           /\ (cr.pc = "done" /\ Populated(cr.result)) =>
                  portfolioCache[cr.isin] =
                      [data |-> cr.result, timestamp |-> lastRes[cr.isin].at]
           /\ (cr.pc = "done" /\ ~Populated(cr.result)) =>
                  portfolioCache[cr.isin] = NoEntry

\* an expired entry was replaced by a fresh, later result
C3_Witness ==
    \E c \in Calls :
        /\ call[c].pc = "done"
        /\ call[c].prior /= Null
        /\ Populated(call[c].prior.data)
        /\ call[c].lookupAt - call[c].prior.at > CACHE_TTL
        /\ Populated(call[c].result)
        /\ call[c].result.lastUpdated > call[c].prior.data.lastUpdated

\* C4: a negative result is cached at neither tier: no entry of the server
\* cache or of the client's durable cache holds an empty Composition, a
\* resolution in which no adapter succeeded leaves the identifier without a
\* server entry, and the next request for it runs the chain again from the
\* first adapter.
C4_NegativeNotCached ==
    /\ \A i \in Isins :
          /\ portfolioCache[i] /= NoEntry => Populated(portfolioCache[i].data)
          /\ localStorage[i] /= NoEntry => Populated(localStorage[i].data)
    /\ \A c \in Calls :
          LET cr == call[c] IN
          /\ (cr.pc = "done" /\ ~cr.hit /\ ~Populated(cr.result)) =>
                 portfolioCache[cr.isin] = NoEntry
          /\ (Looked(c) /\ cr.prior /= Null /\ ~Populated(cr.prior.data)) =>
                 /\ ~cr.hit
                 /\ cr.mfapiCalled
                 /\ cr.pc /= "mfapi" =>
                        (cr.invoked /= <<>> /\ cr.invoked[1] = SCRAPERS[1])

\* the client asks again for an identifier whose last resolution found nothing,
\* and the chain runs again
C4_Witness ==
    \E c \in Calls :
        /\ call[c].pc = "scraper"
        /\ call[c].via = "client"
        /\ call[c].prior /= Null
        /\ ~Populated(call[c].prior.data)
        /\ Len(call[c].invoked) = 2

\* C5: fetchFundPortfolio never throws and always returns a Composition: a
\* populated one carrying an adapter's source label, or an empty one with the
\* fixed error description and the sentinel source label.
C5_NeverThrows ==
    \A c \in Calls :
        LET cr == call[c] IN
        /\ cr.pc /= "threw"
        /\ cr.pc = "done" =>
              /\ cr.result /= Null
              /\ \/ /\ Len(cr.result.holdings) > 0
                    /\ \E k \in 1..Len(SCRAPERS) :
                           cr.result.source = SourceLabel(SCRAPERS[k])
                    /\ cr.result.error = Undef
                 \/ /\ cr.result.holdings = <<>>
                    /\ cr.result.error = NO_DATA_ERROR
                    /\ cr.result.source = NO_DATA_SOURCE

\* the registry failed, an adapter threw, none succeeded: an empty Composition
C5_Witness ==
    \E c \in Calls :
        /\ call[c].pc = "done"
        /\ call[c].threw
        /\ call[c].mfapiData = Null
        /\ call[c].result.source = NO_DATA_SOURCE

-----------------------------------------------------------------------------
(* Properties of the detail view *)

\* C6: one view never has more than one batch call outstanding: a timer that
\* fires while a call has not settled issues no call.
C6_OneCallInFlight ==
    /\ Len(inflight) <= 1
    /\ lastFire.did = "busy" => lastFire.indices = <<>>

\* a timer fired while a call was outstanding, and the call is still the only one
C6_Witness ==
    /\ lastFire.did = "busy"
    /\ Len(inflight) = 1
    /\ ~inflight[1].aborted

C8_PendingIsDrained ==
    \A i \in Rows :
        (mounted /\ i \in SeqToSet(pendingIndices) /\ i \notin fetchedIndices)
            ~> (~mounted \/ i \in fetchedIndices \/ i \notin SeqToSet(pendingIndices))

\* C9: closing the view leaves no timer armed, no call running, and the
\* pending, fetched and loading sets empty.
C9_TeardownClearsAll ==
    [][(mounted /\ ~mounted') =>
          /\ ~batchTimeout'.armed
          /\ followUps' = <<>>
          /\ \A j \in 1..Len(inflight') : inflight'[j].aborted
          /\ pendingIndices' = <<>>
          /\ fetchedIndices' = {}
          /\ loadingIndices' = {}]_vars

\* C10: once the view is closed, the handler of a call that was aborted (or
\* settles at that moment) touches neither the sets nor the displayed
\* composition nor the durable cache, and queues nothing again.
C10_NoMutationAfterTeardown ==
    [][~mounted =>
          /\ UNCHANGED <<pendingIndices, fetchedIndices, loadingIndices, fundData, localStorage>>
          /\ ~isFetching'
          /\ ~batchTimeout'.armed
          /\ nIssued' = nIssued]_vars

\* the view is closed and the aborted call's handler has run
C10_Witness ==
    /\ ~mounted
    /\ lastSettled = "abort"
    /\ inflight = <<>>
    /\ fetchedIndices /= {}

\* the step in which the handler of a batch call runs, the call having settled as o
Settled(o) == lastSettled' = o /\ Len(inflight') < Len(inflight)

\* C11: when a batch call fails other than by cancellation (the fetch rejects,
\* or the endpoint answers with a non-success status), every index of the
\* batch leaves the fetched set, so that the row can be queued again.
C11_FailureReleasesIndices ==
    [][(Settled("error") \/ Settled("notOk")) =>
          SeqToSet(inflight[1].indices) \cap fetchedIndices' = {}]_vars

\* C12: when the batch call in flight is aborted by the teardown of the view,
\* its handler keeps the batch's indices in the fetched set and neither arms a
\* follow-up timer nor issues a call.
C12_AbortIsNotRetried ==
    [][Settled("abort") =>
          /\ fetchedIndices' = fetchedIndices
          /\ SeqToSet(inflight[1].indices) \subseteq fetchedIndices'
          /\ followUps' = followUps
          /\ ~batchTimeout'.armed
          /\ nIssued' = nIssued]_vars

\* the handler of an aborted call has run: its indices are still fetched, no
\* timer is armed
C12_Witness ==
    /\ lastSettled = "abort"
    /\ inflight = <<>>
    /\ followUps = <<>>
    /\ fetchedIndices /= {}
    /\ nIssued >= 1

\* row i carries field f (0 and "": absent)
Has(h, f) == IF f = "pe" THEN h.pe /= 0 ELSE h[f] /= ""

\* C13: after a successful batch call every row whose index was sent and for
\* whose name the response carries a ratio, band or ticker has it (what it had
\* before is kept), also when rows share a name; and the updated composition
\* is in the durable cache under the holding's identifier.
C13_ResultsMerged ==
    [][Settled("ok") =>
          /\ \A i \in SeqToSet(inflight[1].indices) : \A f \in {"pe", "marketCap", "symbol"} :
                Has(fundData'.holdings[i], f) <=>
                   \/ Has(fundData.holdings[i], f)
                   \/ \E j \in 1..Len(lastResults') :
                         /\ lastResults'[j].name = fundData.holdings[i].name
                         /\ Has(lastResults'[j], f)
          /\ localStorage'[ViewIsin] /= NoEntry
          /\ localStorage'[ViewIsin].data = fundData']_vars

-----------------------------------------------------------------------------
(* Properties of the aggregation *)

\* the sum of a sequence of fractions, of a sequence of integers
RECURSIVE SumFrac(_)
SumFrac(seq) == IF seq = <<>> THEN Whole(0) ELSE Plus(Head(seq), SumFrac(Tail(seq)))

RECURSIVE SumInt(_)
SumInt(seq) == IF seq = <<>> THEN 0 ELSE Head(seq) + SumInt(Tail(seq))

Responded == agg.stage = "responded"

\* the funds whose composition has been merged so far
Merged == 1..Len(agg.portfolios)

\* (weight% / 100) x W, W the fund's share of the total in percent (0 when the
\* total is 0), and (weight% / 100) x value, for row r of fund i
WeightShare(i, r) ==
    IF agg.totalPortfolioValue = 0 THEN Whole(0)
    ELSE Frac(r.percentage * agg.uniqueFunds[i].totalValue, agg.totalPortfolioValue)
ValueShare(i, r) == Frac(r.percentage * agg.uniqueFunds[i].totalValue, 100)

\* what the rows carrying the key add up to, over all funds merged so far
ExpectedWeight(key) ==
    SumFrac([i \in Merged |->
        LET hs == agg.portfolios[i].holdings IN
        SumFrac([k \in DOMAIN hs |->
            IF CacheKey(hs[k].name) = key THEN WeightShare(i, hs[k]) ELSE Whole(0)])])

ExpectedValue(key) ==
    SumFrac([i \in Merged |->
        LET hs == agg.portfolios[i].holdings IN
        SumFrac([k \in DOMAIN hs |->
            IF CacheKey(hs[k].name) = key THEN ValueShare(i, hs[k]) ELSE Whole(0)])])

\* the funds with a non-empty composition
Contributing == { i \in Merged : agg.portfolios[i].holdings /= <<>> }

DistinctKeys(holdings) ==
    \A j, k \in DOMAIN holdings : CacheKey(holdings[j].name) = CacheKey(holdings[k].name) => j = k

\* C21: every record's portfolio-wide weight is the sum, over the rows that
\* carry its name, of (row weight% / 100) x (the fund's weight% in the
\* portfolio); when one fund alone contributes, with distinct names and row
\* weights adding up to 100, the returned weights add up to that fund's
\* weight; when the total portfolio value is 0 every weight is 0.
C21_WeightConserved ==
    Responded =>
      LET out == agg.response.holdings IN
      /\ \A j \in DOMAIN out : out[j].totalPercentage = ExpectedWeight(CacheKey(out[j].name))
      /\ \A i \in Merged :
            LET hs == agg.portfolios[i].holdings IN
            (/\ Contributing = {i}
             /\ DistinctKeys(hs)
             /\ SumInt([k \in DOMAIN hs |-> hs[k].percentage]) = 100
             /\ agg.totalPortfolioValue > 0)
            => SumFrac([j \in DOMAIN out |-> out[j].totalPercentage]) =
                   Frac(100 * agg.uniqueFunds[i].totalValue, agg.totalPortfolioValue)
      /\ agg.totalPortfolioValue = 0 => \A j \in DOMAIN out : out[j].totalPercentage = Whole(0)

\* a fund worth 100,000 of 400,000 with rows at 40% and 60%, the other fund
\* without constituents: the weights returned are 15% and 10%
C21_Witness ==
    /\ Responded
    /\ agg.totalPortfolioValue = 400000
    /\ \E i \in Merged :
          /\ Contributing = {i}
          /\ agg.uniqueFunds[i].totalValue = 100000
          /\ Len(agg.portfolios[i].holdings) = 2
    /\ Len(agg.response.holdings) = 2
    /\ agg.response.holdings[1].totalPercentage = Whole(15)
    /\ agg.response.holdings[2].totalPercentage = Whole(10)

\* C22: the response never holds two records whose names are equal after
\* lower-casing and trimming; a record's value and weight are the sums over all
\* rows with that name, and it has one contribution entry per fund that holds
\* the constituent.
C22_OneRecordPerName ==
    Responded =>
      LET out == agg.response.holdings IN
      /\ \A j, k \in DOMAIN out : CacheKey(out[j].name) = CacheKey(out[k].name) => j = k
      /\ \A j \in DOMAIN out :
            LET key == CacheKey(out[j].name) IN
            /\ out[j].totalValue = ExpectedValue(key)
            /\ out[j].totalPercentage = ExpectedWeight(key)
            /\ Len(out[j].funds) =
                 Cardinality({ i \in Merged :
                     \E k \in DOMAIN agg.portfolios[i].holdings :
                         CacheKey(agg.portfolios[i].holdings[k].name) = key })

\* two funds hold the same constituent under different spellings: one record
\* with two contribution entries
C22_Witness ==
    /\ Responded
    /\ Len(agg.portfolios) = 2
    /\ \E k \in DOMAIN agg.portfolios[1].holdings : agg.portfolios[1].holdings[k].name = "Acme Ltd"
    /\ \E k \in DOMAIN agg.portfolios[2].holdings : agg.portfolios[2].holdings[k].name = " ACME LTD "
    /\ \A k \in DOMAIN agg.portfolios[2].holdings : agg.portfolios[2].holdings[k].name /= "Acme Ltd"
    /\ \E j \in DOMAIN agg.response.holdings :
          /\ agg.response.holdings[j].key = "acme ltd"
          /\ Len(agg.response.holdings[j].funds) = 2

\* C23: folios with the same display name form one fund whose value is the sum
\* of theirs; fetchFundPortfolio is called once per distinct display name, and
\* only after consolidation; the response reports as many funds as there are
\* distinct display names and a total equal to the sum of all folio values.
C23_ConsolidatedByName ==
    agg.stage /= "idle" =>
      LET in == agg.mfHoldings
          names == { in[k].fund : k \in DOMAIN in }
          value == [k \in DOMAIN in |-> in[k].last_price * in[k].quantity]
          asked == agg.resolved
      IN
      /\ Len(agg.uniqueFunds) = Cardinality(names)
      /\ \A i \in DOMAIN agg.uniqueFunds :
            agg.uniqueFunds[i].totalValue =
                SumInt([k \in DOMAIN in |->
                    IF in[k].fund = agg.uniqueFunds[i].fund THEN value[k] ELSE 0])
      /\ agg.totalPortfolioValue = SumInt(value)
      /\ \A j, k \in DOMAIN asked : asked[j].fundName = asked[k].fundName => j = k
      /\ { asked[j].fundName : j \in DOMAIN asked } \subseteq names
      /\ Responded =>
            /\ { asked[j].fundName : j \in DOMAIN asked } = names
            /\ Len(asked) = Cardinality(names)
            /\ agg.response.totalFunds = Cardinality(names)
            /\ agg.response.totalPortfolioValue = SumInt(value)

\* three folios, two of them of one fund, all with a value: two funds reported
C23_Witness ==
    /\ Responded
    /\ Len(agg.mfHoldings) = 3
    /\ \A k \in 1..3 : agg.mfHoldings[k].last_price > 0
    /\ agg.mfHoldings[1].fund = agg.mfHoldings[3].fund
    /\ agg.mfHoldings[1].fund /= agg.mfHoldings[2].fund
    /\ agg.response.totalFunds = 2
    /\ Len(agg.resolved) = 2

\* C28: in every record, while it is built and in the response, each fund
\* appears at most once among the contributions, and the record's total value
\* is the sum of the contributions' values.
C28_OneContributionPerFund ==
    LET Ok(e) ==
          /\ \A j, k \in DOMAIN e.funds : e.funds[j].name = e.funds[k].name => j = k
          /\ e.totalValue = SumFrac([k \in DOMAIN e.funds |-> e.funds[k].value])
    IN
    /\ \A j \in DOMAIN agg.holdingsMap : Ok(agg.holdingsMap[j])
    /\ Responded => \A j \in DOMAIN agg.response.holdings : Ok(agg.response.holdings[j])

\* a composition lists one constituent in two rows (30% and 20%): the fund has
\* one contribution of 50%
C28_Witness ==
    /\ Responded
    /\ \E i \in Merged : Len(agg.portfolios[i].holdings) = 3
    /\ \E j \in DOMAIN agg.response.holdings :
          \E k \in DOMAIN agg.response.holdings[j].funds :
              /\ agg.response.holdings[j].funds[k].percentage = 50
              /\ agg.response.holdings[j].key = "acme ltd"
              /\ Len(agg.response.holdings[j].funds) = 1

-----------------------------------------------------------------------------
(* Further properties of the resolver *)

\* the metadata fields both the registry and an adapter may supply
OverlayFields == {"fundName", "category", "fundHouse", "nav"}

\* C24: in a populated result built by fetchFundPortfolio, and in the entry it
\* caches, a metadata field supplied by both the registry and the winning
\* adapter carries the adapter's value, and the registry's value appears only
\* where the adapter left the field unset.
C24_AdapterValueWins ==
    \A c \in Calls :
        LET cr == call[c] IN
        (cr.pc = "done" /\ ~cr.hit /\ Populated(cr.result)) =>
            LET adapter == ScraperValue(cr.invoked[Len(cr.invoked)], "ok", cr.isin,
                                        FundNameOf(cr.isin), now)
            IN
            \A f \in OverlayFields :
                /\ Truthy(adapter[f]) =>
                       /\ cr.result[f] = adapter[f]
                       /\ portfolioCache[cr.isin].data[f] = adapter[f]
                /\ (~Truthy(adapter[f])) => cr.result[f] = Field(cr.mfapiData, f)

\* every completed call returns a Composition for its identifier (populated, or
\* the explicit empty one), and an entry of the cache equals the value
\* cachePortfolio stored last for that identifier
EntryIsLastWrite ==
    /\ \A i \in Isins :
          portfolioCache[i] /= NoEntry =>
              /\ portfolioCache[i].data = lastWrite[i]
              /\ portfolioCache[i].data.isin = i
    /\ \A c \in Calls :
          LET cr == call[c] IN
          cr.pc = "done" =>
              /\ cr.result /= Null
              /\ cr.result.isin = cr.isin
              /\ Populated(cr.result) \/ cr.result.source = NO_DATA_SOURCE

\* a call that looks into the cache within the TTL of the entry returns the
\* value stored last, without running the chain; otherwise it runs the chain
LookupReturnsLastWrite ==
    \A c \in Calls :
        (call[c].pc = "sent" /\ call'[c].pc /= "sent") =>
            LET i == call[c].isin IN
            IF portfolioCache[i] /= NoEntry /\ now - portfolioCache[i].timestamp <= CACHE_TTL
            THEN call'[c].pc = "done" /\ call'[c].hit /\ call'[c].result = lastWrite[i]
            ELSE call'[c].pc = "mfapi" /\ ~call'[c].hit

\* C25: with two handlers interleaving at their awaits, both may run the chain
\* for the same identifier; each returns a Composition, the cache entry of an
\* identifier always equals the value stored last for it, and every lookup
\* within the TTL returns that value.
C25_LastWriteWins == []EntryIsLastWrite /\ [][LookupReturnsLastWrite]_vars

\* both handlers ran the chain for the same uncached identifier and completed
\* with different populated results; the cache holds the one stored last
C25_Witness ==
    /\ call[1].pc = "done" /\ call[2].pc = "done"
    /\ call[1].isin = call[2].isin
    /\ ~call[1].hit /\ ~call[2].hit
    /\ call[1].lookupAt = call[2].lookupAt
    /\ call[1].prior = Null /\ call[2].prior = Null
    /\ Populated(call[1].result) /\ Populated(call[2].result)
    /\ call[1].result /= call[2].result
    /\ portfolioCache[call[1].isin] /= NoEntry
    /\ portfolioCache[call[1].isin].data = call[1].result

-----------------------------------------------------------------------------
(* Properties of the Source Adapters *)

\* C26: a Composition returned by an adapter holds only constituents with a
\* strictly positive weight and no row named "Total", and it is never empty:
\* when no row is left the adapter returns null.
C26_RowsFiltered ==
    scrape.result /= Null =>
        /\ Len(scrape.result.holdings) > 0
        /\ \A k \in DOMAIN scrape.result.holdings :
              /\ scrape.result.holdings[k].percentage > 0
              /\ scrape.result.holdings[k].name /= "Total"


-----------------------------------------------------------------------------
(* Further properties of the batch scheduler *)

\* the call a step has just issued, when it issued one
Issued == nIssued' = nIssued + 1

NewCall == inflight'[Len(inflight')]

\* the calls in flight whose handler the step has run
Handled == {r \in 1..Len(inflight) : \A j \in 1..Len(inflight') : inflight'[j].id /= inflight[r].id}

\* C27: an index is put into a batch call only while it is not in the fetched
\* set and is in that set from then on; it leaves the set only when a call that
\* carried it fails with an error other than a cancellation, so it is in at
\* most one call unless such a failure released it. A visibility event for an
\* index in the fetched set changes neither the pending set nor the debounce
\* timer.
C27_NoDuplicateRequests ==
    [][/\ Issued => \A i \in SeqToSet(NewCall.indices) :
                        i \notin fetchedIndices /\ i \in fetchedIndices'
       /\ \A i \in fetchedIndices \ fetchedIndices' :
              /\ Settled("error")
              /\ \E r \in Handled : i \in SeqToSet(inflight[r].indices)
       /\ \A i \in DOMAIN fundData.holdings :
              (VisibleEvent(i) /\ i \in fetchedIndices)
                  => UNCHANGED <<pendingIndices, batchTimeout>>]_vars

\* a row was requested, no ratio came back for it, and a later visibility
\* event for it has been ignored
C27_Witness ==
    /\ mounted
    /\ lastSettled = "notOk"
    /\ inflight = <<>>
    /\ \E i \in burst.skipped : i \in fetchedIndices /\ fundData.holdings[i].pe = 0
    /\ pendingIndices = <<>>
    /\ ~batchTimeout.armed

\* C29: no index is in the pending set and in the fetched set at once
C29_PendingFetchedDisjoint ==
    SeqToSet(pendingIndices) \cap fetchedIndices = {}

\* C30: once the view is closed no batch call is issued: a timer that fires
\* afterwards does nothing, and no step issues a call, adds one to the calls
\* in flight or arms a timer
C30_NoCallAfterTeardown ==
    /\ [](~lastFire.live => lastFire.did = "nothing")
    /\ [][~mounted => /\ nIssued' = nIssued
                      /\ Len(inflight') <= Len(inflight)
                      /\ Len(followUps') <= Len(followUps)
                      /\ batchTimeout' = NoTimer]_vars

\* the view was closed with a call in flight and a follow-up timer armed; the
\* timer has fired and the cancelled call's handler has run
C30_Witness ==
    /\ ~mounted
    /\ ~lastFire.live
    /\ lastFire.by = "followup"
    /\ lastSettled = "abort"
    /\ inflight = <<>>
    /\ followUps = <<>>

=============================================================================
